---- MODULE Spec2Model ----
(***************************************************************************)
(* ATX power controller (src/atx/controller.rs), its MiIoT smart-plug      *)
(* backend (src/atx/miot.rs) and its configuration types                   *)
(* (src/atx/types.rs).                                                     *)
(*                                                                         *)
(* The controller keeps one bundle (config + four optional backend         *)
(* handles) behind one tokio RwLock.  Every public operation is a small    *)
(* program run by a caller; a caller's position is pc[p].  A step is what  *)
(* a caller does between two points at which other callers can run.        *)
(***************************************************************************)
EXTENDS Integers, Sequences, FiniteSets, TLC

\* Number of concurrent callers of the controller.
NumCallers == 2

Callers == 1..NumCallers

----------------------------------------------------------------------------
\* Option<T>: the empty sequence is None, a one-element sequence is Some(x).

NoneOpt == <<>>

Some(x) == <<x>>

IsSome(o) == o # <<>>

Unwrap(o) == o[1]

----------------------------------------------------------------------------
\* types.rs

PowerStatus == {"On", "Off", "Unknown"}

AtxDriverType == {"Gpio", "UsbRelay", "Miot", "None"}

AtxStatusDriverType == {"None", "Led", "Miot"}

\* KeyIsConfigured that asks every driver for a device
KeyIsConfiguredByDeviceOnly(k) ==
    CASE k.driver = "None" -> FALSE
      [] OTHER -> k.device # ""

\* AtxKeyConfig::is_configured
KeyIsConfigured(k) ==
    CASE k.driver = "None" -> FALSE
      [] k.driver \in {"Gpio", "UsbRelay"} -> k.device # ""
      [] k.driver = "Miot" -> k.prop # ""

\* AtxStatusConfig::is_configured
StatusIsConfigured(s) ==
    CASE s.driver = "None" -> FALSE
      [] s.driver = "Led" -> s.gpio_chip # ""
      [] s.driver = "Miot" -> s.prop # ""

\* MiotConfig::is_configured
MiotIsConfigured(m) == m.did # ""

\* AtxKeyConfig::default
DefaultKeyConfig ==
    [driver |-> "None", device |-> "", prop |-> "", value |-> "",
     off_prop |-> "", off_value |-> ""]

\* AtxStatusConfig::default
DefaultStatusConfig ==
    [driver |-> "None", gpio_chip |-> "", prop |-> "",
     on_value |-> <<>>]

\* MiotConfig::default
DefaultMiotConfig == [did |-> "", command |-> "mijiaAPI"]

\* AtxControllerConfig::default
DefaultConfig ==
    [enabled |-> FALSE, power |-> DefaultKeyConfig, reset |-> DefaultKeyConfig,
     status |-> DefaultStatusConfig, miot |-> DefaultMiotConfig]

----------------------------------------------------------------------------
\* miot.rs: text of the tool's output.  A text is a sequence of characters;
\* a character is written as a one-letter string, the two characters of the
\* marker (U+503C U+4E3A, "value is") are written "zhi" and "wei".

Marker == <<"zhi", "wei">>

Whitespace == {" ", "\t", "\r", "\n"}

\* char::to_ascii_lowercase on the letters the model uses
ToAsciiLower(c) ==
    CASE c = "T" -> "t"
      [] c = "F" -> "f"
      [] c = "R" -> "r"
      [] OTHER -> c

\* str::eq_ignore_ascii_case
EqIgnoreAsciiCase(a, b) ==
    /\ Len(a) = Len(b)
    /\ \A i \in 1..Len(a) : ToAsciiLower(a[i]) = ToAsciiLower(b[i])

RECURSIVE TrimStart(_)
TrimStart(s) ==
    IF s # <<>> /\ Head(s) \in Whitespace THEN TrimStart(Tail(s)) ELSE s

RECURSIVE TrimEnd(_)
TrimEnd(s) ==
    IF s # <<>> /\ s[Len(s)] \in Whitespace
    THEN TrimEnd(SubSeq(s, 1, Len(s) - 1))
    ELSE s

\* str::trim
Trim(s) == TrimEnd(TrimStart(s))

\* str::lines: split at "\n", a final empty piece is no line, a line's
\* trailing "\r" is dropped
RECURSIVE SplitLines(_, _)
SplitLines(s, cur) ==
    IF s = <<>> THEN (IF cur = <<>> THEN <<>> ELSE <<cur>>)
    ELSE IF Head(s) = "\n"
         THEN <<IF cur # <<>> /\ cur[Len(cur)] = "\r"
                THEN SubSeq(cur, 1, Len(cur) - 1) ELSE cur>>
              \o SplitLines(Tail(s), <<>>)
         ELSE SplitLines(Tail(s), Append(cur, Head(s)))

Lines(s) == SplitLines(s, <<>>)

\* str::rfind(marker): the last position at which the marker starts, 0 if none
RFind(line, pat) ==
    LET hits == {i \in 1..(Len(line) - Len(pat) + 1) :
                    SubSeq(line, i, i + Len(pat) - 1) = pat}
    IN IF hits = {} THEN 0
       ELSE CHOOSE i \in hits : \A j \in hits : j <= i

\* the value part of one line: Some(text) or None
LineValue(rawline) ==
    LET line == Trim(rawline)
        pos == RFind(line, Marker)
    IN IF pos = 0 THEN NoneOpt
       ELSE LET value_part == Trim(SubSeq(line, pos + Len(Marker), Len(line)))
            IN IF value_part # <<>> THEN Some(value_part) ELSE NoneOpt

\* ScanRev that scans the lines from the first one on
RECURSIVE ScanFromStart(_, _)
ScanFromStart(ls, i) ==
    IF i = 0 THEN NoneOpt
    ELSE IF IsSome(LineValue(ls[Len(ls) - i + 1]))
         THEN LineValue(ls[Len(ls) - i + 1])
         ELSE ScanFromStart(ls, i - 1)

\* parse_value_from_output: lines scanned in reverse, first value wins
RECURSIVE ScanRev(_, _)
ScanRev(ls, i) ==
    IF i = 0 THEN NoneOpt
    ELSE IF IsSome(LineValue(ls[i])) THEN LineValue(ls[i])
         ELSE ScanRev(ls, i - 1)

parse_value_from_output(output) == ScanRev(Lines(output), Len(Lines(output)))

\* parse_power_status
parse_power_status(output, on_value) ==
    LET parsed == parse_value_from_output(output)
    IN IF IsSome(parsed)
       THEN (IF EqIgnoreAsciiCase(Unwrap(parsed), on_value) THEN "On" ELSE "Off")
       ELSE "Unknown"

----------------------------------------------------------------------------
\* Result<T>: ok, or an error with its message; val is Some(value) or None.

Ok(v) == [ok |-> TRUE, err |-> "", val |-> Some(v)]

OkUnit == [ok |-> TRUE, err |-> "", val |-> NoneOpt]

Err(msg) == [ok |-> FALSE, err |-> msg, val |-> NoneOpt]

----------------------------------------------------------------------------
\* miot.rs: MiotBackend.  What the external tool does in one call is an
\* outcome: the spawn failed, the 30 s timeout fired, the wait failed, or the
\* child exited with a code and a standard output.

OutTrue == <<"d", " ", "zhi", "wei", " ", "T", "r", "u", "e", "\n">>

OutFalse == <<"d", " ", "zhi", "wei", " ", "F", "a", "l", "s", "e", "\n">>

OutWarning == <<"W", "A", "R", "N", "\n">>

OutEmpty == <<>>

SampleOutputs == {OutTrue, OutFalse, OutWarning, OutEmpty}

Outcome(kind, code, stdout) == [kind |-> kind, code |-> code, stdout |-> stdout]

FailedOutcomes ==
    {Outcome("spawn_failed", 0, <<>>), Outcome("timed_out", 0, <<>>),
     Outcome("wait_failed", 0, <<>>)}

GetOutcomes ==
    FailedOutcomes \cup {Outcome("exited", 1, OutWarning)}
        \cup {Outcome("exited", 0, o) : o \in SampleOutputs}

SetOutcomes ==
    FailedOutcomes \cup {Outcome("exited", 1, <<>>), Outcome("exited", 0, <<>>)}

\* MiotBackend::new
MiotBackendNew(cfg) == [config |-> cfg, initialized |-> FALSE]

\* MiotBackendInit that marks the backend ready whatever its settings
MiotBackendInitAlwaysReady(b) ==
    [res |-> OkUnit, backend |-> [b EXCEPT !.initialized = TRUE]]

\* MiotBackend::init
MiotBackendInit(b) ==
    IF ~MiotIsConfigured(b.config)
    THEN [res |-> OkUnit, backend |-> b]
    ELSE [res |-> OkUnit, backend |-> [b EXCEPT !.initialized = TRUE]]

\* MiotBackend::shutdown
MiotBackendShutdown(b) ==
    [res |-> OkUnit, backend |-> [b EXCEPT !.initialized = FALSE]]

\* MiotBackend::run_get
run_get(prop_name, outcome) ==
    CASE outcome.kind = "spawn_failed" -> Err("Failed to spawn")
      [] outcome.kind = "timed_out" -> Err("mijiaAPI get timed out")
      [] outcome.kind = "wait_failed" -> Err("mijiaAPI get wait failed")
      [] outcome.kind = "exited" ->
            IF outcome.code # 0 THEN Err("mijiaAPI get failed")
            ELSE Ok(outcome.stdout)

\* run_set that does not look at the exit status
run_set_ignoring_exit_status(prop_name, value, outcome) ==
    CASE outcome.kind = "spawn_failed" -> Err("Failed to spawn")
      [] outcome.kind = "timed_out" -> Err("mijiaAPI set timed out")
      [] outcome.kind = "wait_failed" -> Err("mijiaAPI set wait failed")
      [] outcome.kind = "exited" -> OkUnit

\* MiotBackend::run_set
run_set(prop_name, value, outcome) ==
    CASE outcome.kind = "spawn_failed" -> Err("Failed to spawn")
      [] outcome.kind = "timed_out" -> Err("mijiaAPI set timed out")
      [] outcome.kind = "wait_failed" -> Err("mijiaAPI set wait failed")
      [] outcome.kind = "exited" ->
            IF outcome.code # 0 THEN Err("mijiaAPI set failed")
            ELSE OkUnit

\* What a call does to the outside, in order: <<"get", prop, "">> and
\* <<"set", prop, value>> are invocations of the tool, <<"pulse", key,
\* duration>> a pulse of an executor, <<"read", "led", "">> a sensor read,
\* <<"init", backend, "ok" | "err">> and <<"teardown", backend, "ok" | "err">>
\* a backend's init and shutdown.
GetEvent(prop) == <<"get", prop, "">>

SetEvent(prop, value) == <<"set", prop, value>>

\* set_prop that issues the set a second time when the first one failed
set_prop_retrying_once(b, prop, value, outcome) ==
    [res |-> run_set(prop, value, outcome),
     events |-> IF run_set(prop, value, outcome).ok
                THEN <<SetEvent(prop, value)>>
                ELSE <<SetEvent(prop, value), SetEvent(prop, value)>>]

\* MiotBackend::set_prop
set_prop(b, prop, value, outcome) ==
    [res |-> run_set(prop, value, outcome), events |-> <<SetEvent(prop, value)>>]

\* MiotBackend::get_prop
get_prop(b, prop, outcome) ==
    [res |-> run_get(prop, outcome), events |-> <<GetEvent(prop)>>]

\* get_power_status without the check of is_initialized
get_power_status_unguarded(b, prop, on_value, outcome) ==
    LET output == run_get(prop, outcome)
    IN [res |-> IF ~output.ok THEN output
                ELSE Ok(parse_power_status(Unwrap(output.val), on_value)),
        events |-> <<GetEvent(prop)>>]

\* MiotBackend::get_power_status
get_power_status(b, prop, on_value, outcome) ==
    IF ~b.initialized
    THEN [res |-> Ok("Unknown"), events |-> <<>>]
    ELSE LET output == run_get(prop, outcome)
         IN [res |-> IF ~output.ok THEN output
                     ELSE Ok(parse_power_status(Unwrap(output.val), on_value)),
             events |-> <<GetEvent(prop)>>]

----------------------------------------------------------------------------
\* The collaborators of the controller: the pulse executor (executor.rs) and
\* the LED sensor (led.rs).  Whether an init, a pulse, a read or a shutdown
\* succeeds is decided by the hardware: it is an input of the step.

\* AtxKeyExecutor::new
AtxKeyExecutorNew(key_config) == [config |-> key_config, initialized |-> FALSE]

\* AtxKeyExecutor::init
AtxKeyExecutorInit(e, ok) ==
    IF ok THEN [res |-> OkUnit, executor |-> [e EXCEPT !.initialized = TRUE]]
    ELSE [res |-> Err("executor init failed"), executor |-> e]

\* AtxKeyExecutor::pulse
AtxKeyExecutorPulse(e, key, duration, ok) ==
    [res |-> IF ok THEN OkUnit ELSE Err("pulse failed"),
     events |-> <<<<"pulse", key, duration>>>>]

\* LedSensor::new
LedSensorNew(led_config) == [config |-> led_config, initialized |-> FALSE]

\* LedSensor::init
LedSensorInit(sensor, ok) ==
    IF ok THEN [res |-> OkUnit, sensor |-> [sensor EXCEPT !.initialized = TRUE]]
    ELSE [res |-> Err("sensor init failed"), sensor |-> sensor]

ReadOutcomes == {"On", "Off", "Unknown", "Err"}

\* LedSensor::read
LedSensorRead(sensor, r) ==
    [res |-> IF r = "Err" THEN Err("read failed") ELSE Ok(r),
     events |-> <<<<"read", "led", "">>>>]

\* Result::unwrap_or
UnwrapOr(res, default) == IF res.ok THEN Unwrap(res.val) ELSE default

----------------------------------------------------------------------------
\* controller.rs: configurations the model draws from.  device, gpio_chip,
\* prop and did are empty or filled; a key's fields that its driver does not
\* read stay empty.

PowerKeyConfigs ==
    {k \in [driver : AtxDriverType, device : {"", "/dev/gpiochip0"},
            prop : {"", "on"}, value : {"True"}, off_prop : {"on"},
            off_value : {"False"}] :
        /\ k.driver \in {"Gpio", "UsbRelay"} => k.prop = ""
        /\ k.driver = "Miot" => k.device = ""
        /\ k.driver = "None" => k.device = "" /\ k.prop = ""}

ResetKeyConfigs ==
    {k \in [driver : AtxDriverType, device : {"", "/dev/hidraw0"},
            prop : {"", "name"}, value : {"1"}, off_prop : {""},
            off_value : {""}] :
        /\ k.driver \in {"Gpio", "UsbRelay"} => k.prop = ""
        /\ k.driver = "Miot" => k.device = ""
        /\ k.driver = "None" => k.device = "" /\ k.prop = ""}

StatusConfigs ==
    {c \in [driver : AtxStatusDriverType, gpio_chip : {"", "/dev/gpiochip1"},
            prop : {"", "on"}, on_value : {<<"T", "r", "u", "e">>}] :
        /\ c.driver = "Led" => c.prop = ""
        /\ c.driver = "Miot" => c.gpio_chip = ""
        /\ c.driver = "None" => c.gpio_chip = "" /\ c.prop = ""}

MiotConfigs == [did : {"", "2094828328"}, command : {"mijiaAPI"}]

Configs ==
    [enabled : BOOLEAN, power : PowerKeyConfigs, reset : ResetKeyConfigs,
     status : StatusConfigs, miot : MiotConfigs]

\* needs_miot_backend that looks at the two keys only
needs_miot_backend_keys_only(config) ==
    \/ config.power.driver = "Miot"
    \/ config.reset.driver = "Miot"

\* needs_miot_backend
needs_miot_backend(config) ==
    \/ config.power.driver = "Miot"
    \/ config.reset.driver = "Miot"
    \/ config.status.driver = "Miot"

\* AtxController::new
NewInner(config) ==
    [config |-> config, power_executor |-> NoneOpt, reset_executor |-> NoneOpt,
     led_sensor |-> NoneOpt, miot_backend |-> NoneOpt]

\* the AtxLedConfig init builds from the status section
LedConfigOf(status) == [enabled |-> TRUE, gpio_chip |-> status.gpio_chip]

\* InitMiot that builds the backend without looking at the connection settings
InitMiotIgnoringDid(st) ==
    IF needs_miot_backend(st.inner.config)
    THEN LET r == MiotBackendInit(MiotBackendNew(st.inner.config.miot))
         IN IF ~r.res.ok
            THEN [inner |-> st.inner,
                  events |-> Append(st.events, <<"init", "miot", "err">>)]
            ELSE [inner |-> [st.inner EXCEPT !.miot_backend = Some(r.backend)],
                  events |-> Append(st.events, <<"init", "miot", "ok">>)]
    ELSE st

\* init, the MiIoT step
InitMiot(st) ==
    IF needs_miot_backend(st.inner.config)
       /\ MiotIsConfigured(st.inner.config.miot)
    THEN LET r == MiotBackendInit(MiotBackendNew(st.inner.config.miot))
         IN IF ~r.res.ok
            THEN [inner |-> st.inner,
                  events |-> Append(st.events, <<"init", "miot", "err">>)]
            ELSE [inner |-> [st.inner EXCEPT !.miot_backend = Some(r.backend)],
                  events |-> Append(st.events, <<"init", "miot", "ok">>)]
    ELSE st

\* InitPower that clears the slot when the executor fails to initialise
InitPowerClearsOnFailure(st, ok) ==
    IF st.inner.config.power.driver # "Miot"
       /\ KeyIsConfigured(st.inner.config.power)
    THEN LET r == AtxKeyExecutorInit(AtxKeyExecutorNew(st.inner.config.power), ok)
         IN IF ~r.res.ok
            THEN [inner |-> [st.inner EXCEPT !.power_executor = NoneOpt],
                  events |-> Append(st.events, <<"init", "power", "err">>)]
            ELSE [inner |-> [st.inner EXCEPT !.power_executor = Some(r.executor)],
                  events |-> Append(st.events, <<"init", "power", "ok">>)]
    ELSE st

\* init, the power executor step
InitPower(st, ok) ==
    IF st.inner.config.power.driver # "Miot"
       /\ KeyIsConfigured(st.inner.config.power)
    THEN LET r == AtxKeyExecutorInit(AtxKeyExecutorNew(st.inner.config.power), ok)
         IN IF ~r.res.ok
            THEN [inner |-> st.inner,
                  events |-> Append(st.events, <<"init", "power", "err">>)]
            ELSE [inner |-> [st.inner EXCEPT !.power_executor = Some(r.executor)],
                  events |-> Append(st.events, <<"init", "power", "ok">>)]
    ELSE st

\* init, the reset executor step
InitReset(st, ok) ==
    IF st.inner.config.reset.driver # "Miot"
       /\ KeyIsConfigured(st.inner.config.reset)
    THEN LET r == AtxKeyExecutorInit(AtxKeyExecutorNew(st.inner.config.reset), ok)
         IN IF ~r.res.ok
            THEN [inner |-> st.inner,
                  events |-> Append(st.events, <<"init", "reset", "err">>)]
            ELSE [inner |-> [st.inner EXCEPT !.reset_executor = Some(r.executor)],
                  events |-> Append(st.events, <<"init", "reset", "ok">>)]
    ELSE st

\* init, the LED sensor step
InitLed(st, ok) ==
    IF st.inner.config.status.driver = "Led"
       /\ StatusIsConfigured(st.inner.config.status)
    THEN LET r == LedSensorInit(LedSensorNew(LedConfigOf(st.inner.config.status)), ok)
         IN IF ~r.res.ok
            THEN [inner |-> st.inner,
                  events |-> Append(st.events, <<"init", "led", "err">>)]
            ELSE [inner |-> [st.inner EXCEPT !.led_sensor = Some(r.sensor)],
                  events |-> Append(st.events, <<"init", "led", "ok">>)]
    ELSE st

\* Outcomes of the three hardware inits of one init call.
HwOutcomes == [power : BOOLEAN, reset : BOOLEAN, led : BOOLEAN]

\* InitBody without the check of config.enabled
InitBodyIgnoresEnabled(in, oc) ==
    LET s0 == [inner |-> in, events |-> <<>>]
        s4 == InitLed(InitReset(InitPower(InitMiot(s0), oc.power), oc.reset),
                      oc.led)
    IN [inner |-> s4.inner, events |-> s4.events, res |-> OkUnit]

\* AtxController::init under the write lock: the bundle it leaves and what it
\* did, given the hardware outcomes oc
InitBody(in, oc) ==
    IF ~in.config.enabled
    THEN [inner |-> in, events |-> <<>>, res |-> OkUnit]
    ELSE LET s0 == [inner |-> in, events |-> <<>>]
             s4 == InitLed(InitReset(InitPower(InitMiot(s0), oc.power), oc.reset),
                           oc.led)
         IN [inner |-> s4.inner, events |-> s4.events, res |-> OkUnit]

\* the outcomes among hw that differ in effect for init on bundle in
InitOutcomesFor(in, hw) ==
    {oc \in hw :
        /\ oc.power \/ (in.config.enabled /\ in.config.power.driver # "Miot"
                        /\ KeyIsConfigured(in.config.power))
        /\ oc.reset \/ (in.config.enabled /\ in.config.reset.driver # "Miot"
                        /\ KeyIsConfigured(in.config.reset))
        /\ oc.led \/ (in.config.enabled /\ in.config.status.driver = "Led"
                      /\ StatusIsConfigured(in.config.status))}

\* ShutdownBody that leaves the LED sensor in place
ShutdownBodyKeepsLed(in, oc) ==
    [inner |-> [in EXCEPT !.miot_backend = NoneOpt,
                          !.power_executor = NoneOpt,
                          !.reset_executor = NoneOpt],
     events |->
        (IF IsSome(in.miot_backend)
         THEN <<<<"teardown", "miot", "ok">>>> ELSE <<>>)
        \o (IF IsSome(in.power_executor)
            THEN <<<<"teardown", "power", IF oc.power THEN "ok" ELSE "err">>>>
            ELSE <<>>)
        \o (IF IsSome(in.reset_executor)
            THEN <<<<"teardown", "reset", IF oc.reset THEN "ok" ELSE "err">>>>
            ELSE <<>>),
     res |-> OkUnit]

\* ShutdownBody that fails the caller when a teardown fails
ShutdownBodyPropagatesFailure(in, oc) ==
    [inner |-> [in EXCEPT !.miot_backend = NoneOpt,
                          !.power_executor = NoneOpt,
                          !.reset_executor = NoneOpt,
                          !.led_sensor = NoneOpt],
     events |->
        (IF IsSome(in.miot_backend)
         THEN <<<<"teardown", "miot", "ok">>>> ELSE <<>>)
        \o (IF IsSome(in.power_executor)
            THEN <<<<"teardown", "power", IF oc.power THEN "ok" ELSE "err">>>>
            ELSE <<>>)
        \o (IF IsSome(in.reset_executor)
            THEN <<<<"teardown", "reset", IF oc.reset THEN "ok" ELSE "err">>>>
            ELSE <<>>)
        \o (IF IsSome(in.led_sensor)
            THEN <<<<"teardown", "led", IF oc.led THEN "ok" ELSE "err">>>>
            ELSE <<>>),
     res |-> IF oc.power /\ oc.reset /\ oc.led
             THEN OkUnit ELSE Err("teardown failed")]

\* AtxController::shutdown_internal under the write lock
ShutdownBody(in, oc) ==
    LET e1 == IF IsSome(in.miot_backend)
              THEN <<<<"teardown", "miot",
                       IF MiotBackendShutdown(Unwrap(in.miot_backend)).res.ok
                       THEN "ok" ELSE "err">>>>
              ELSE <<>>
        e2 == IF IsSome(in.power_executor)
              THEN <<<<"teardown", "power", IF oc.power THEN "ok" ELSE "err">>>>
              ELSE <<>>
        e3 == IF IsSome(in.reset_executor)
              THEN <<<<"teardown", "reset", IF oc.reset THEN "ok" ELSE "err">>>>
              ELSE <<>>
        e4 == IF IsSome(in.led_sensor)
              THEN <<<<"teardown", "led", IF oc.led THEN "ok" ELSE "err">>>>
              ELSE <<>>
    IN [inner |-> [in EXCEPT !.miot_backend = NoneOpt,
                             !.power_executor = NoneOpt,
                             !.reset_executor = NoneOpt,
                             !.led_sensor = NoneOpt],
        events |-> e1 \o e2 \o e3 \o e4,
        res |-> OkUnit]

\* the outcomes among hw that differ in effect for a shutdown of bundle in
ShutdownOutcomesFor(in, hw) ==
    {oc \in hw :
        /\ oc.power \/ IsSome(in.power_executor)
        /\ oc.reset \/ IsSome(in.reset_executor)
        /\ oc.led \/ IsSome(in.led_sensor)}

\* get_power_status_inner that reads a failed query or read as Off
get_power_status_inner_off_on_failure(in, env) ==
    CASE in.config.status.driver = "Miot" ->
            IF IsSome(in.miot_backend)
            THEN LET r == get_power_status(Unwrap(in.miot_backend),
                                           in.config.status.prop,
                                           in.config.status.on_value, env.get)
                 IN [status |-> UnwrapOr(r.res, "Off"), events |-> r.events]
            ELSE [status |-> "Unknown", events |-> <<>>]
      [] in.config.status.driver = "Led" ->
            IF IsSome(in.led_sensor)
            THEN LET r == LedSensorRead(Unwrap(in.led_sensor), env.read)
                 IN [status |-> UnwrapOr(r.res, "Off"), events |-> r.events]
            ELSE [status |-> "Unknown", events |-> <<>>]
      [] in.config.status.driver = "None" ->
            [status |-> "Unknown", events |-> <<>>]

\* What the status backends answer in one resolution of the power status.
StatusEnv(get, read) == [get |-> get, read |-> read]

\* the answers that differ in effect for bundle in
StatusEnvsFor(in) ==
    CASE in.config.status.driver = "Miot" /\ IsSome(in.miot_backend) ->
            {StatusEnv(o, "Unknown") : o \in GetOutcomes}
      [] in.config.status.driver = "Led" /\ IsSome(in.led_sensor) ->
            {StatusEnv(Outcome("spawn_failed", 0, <<>>), r) : r \in ReadOutcomes}
      [] OTHER -> {StatusEnv(Outcome("spawn_failed", 0, <<>>), "Unknown")}

\* AtxController::get_power_status_inner
get_power_status_inner(in, env) ==
    CASE in.config.status.driver = "Miot" ->
            IF IsSome(in.miot_backend)
            THEN LET r == get_power_status(Unwrap(in.miot_backend),
                                           in.config.status.prop,
                                           in.config.status.on_value, env.get)
                 IN [status |-> UnwrapOr(r.res, "Unknown"), events |-> r.events]
            ELSE [status |-> "Unknown", events |-> <<>>]
      [] in.config.status.driver = "Led" ->
            IF IsSome(in.led_sensor)
            THEN LET r == LedSensorRead(Unwrap(in.led_sensor), env.read)
                 IN [status |-> UnwrapOr(r.res, "Unknown"), events |-> r.events]
            ELSE [status |-> "Unknown", events |-> <<>>]
      [] in.config.status.driver = "None" ->
            [status |-> "Unknown", events |-> <<>>]

\* StateSnapshot whose power_configured does not look at the smart-plug handle
StateSnapshotKeyOnly(in, power_status) ==
    [available |-> in.config.enabled,
     power_configured |-> KeyIsConfigured(in.config.power),
     reset_configured |->
        KeyIsConfigured(in.config.reset)
        /\ (in.config.reset.driver # "Miot" \/ IsSome(in.miot_backend)),
     power_status |-> power_status,
     status_supported |->
        CASE in.config.status.driver = "Led" ->
                IF IsSome(in.led_sensor)
                THEN Unwrap(in.led_sensor).initialized ELSE FALSE
          [] in.config.status.driver = "Miot" -> IsSome(in.miot_backend)
          [] in.config.status.driver = "None" -> FALSE]

\* AtxController::state, the snapshot built after the status is resolved
StateSnapshot(in, power_status) ==
    [available |-> in.config.enabled,
     power_configured |->
        KeyIsConfigured(in.config.power)
        /\ (in.config.power.driver # "Miot" \/ IsSome(in.miot_backend)),
     reset_configured |->
        KeyIsConfigured(in.config.reset)
        /\ (in.config.reset.driver # "Miot" \/ IsSome(in.miot_backend)),
     power_status |-> power_status,
     status_supported |->
        CASE in.config.status.driver = "Led" ->
                IF IsSome(in.led_sensor)
                THEN Unwrap(in.led_sensor).initialized ELSE FALSE
          [] in.config.status.driver = "Miot" -> IsSome(in.miot_backend)
          [] in.config.status.driver = "None" -> FALSE]

\* PowerShortCommand that turns off unless the status is Off
PowerShortCommandOffUnlessOff(power, current_status) ==
    IF current_status = "Off"
    THEN <<power.prop, power.value>>
    ELSE <<power.off_prop, power.off_value>>

\* power_short on a Miot power key: the (prop, value) it sets for a status
PowerShortCommand(power, current_status) ==
    IF current_status = "On"
    THEN <<power.off_prop, power.off_value>>
    ELSE <<power.prop, power.value>>

\* PowerLongCommand that sends the power-on pair
PowerLongCommandSendsOn(power) == <<power.prop, power.value>>

\* power_long on a Miot power key: the (prop, value) it sets
PowerLongCommand(power) == <<power.off_prop, power.off_value>>

\* ResetCommand that sends the key's force-off pair
ResetCommandSendsOffPair(reset_key) == <<reset_key.off_prop, reset_key.off_value>>

\* reset on a Miot reset key: the (prop, value) it sets
ResetCommand(reset_key) == <<reset_key.prop, reset_key.value>>

\* The smart plug behind `mijiaAPI set`: a set of its switch property that
\* succeeded turns its power on or off, any other set leaves it as it is.
PlugAfterSet(power_now, prop, value, res) ==
    IF res.ok /\ prop = "on"
    THEN IF value = "True" THEN "On" ELSE "Off"
    ELSE power_now

----------------------------------------------------------------------------
\* The controller and its callers.

VARIABLES
    inner,          \* AtxInner: config and the four optional handles
    writer,         \* the callers holding the RwLock exclusively (at most one)
    readers,        \* the callers holding the RwLock shared
    pc,             \* each caller's position
    op,             \* the public operation each caller is in
    new_config,     \* reload's argument, once it is read
    current_status, \* power_short's resolved status
    trace,          \* what the caller's operation did to the outside so far
    result,         \* the value the operation returned
    acquired,       \* how many times the call has acquired the RwLock
    queue,          \* the callers waiting for the RwLock, in order of arrival
    plug_power,     \* the power the smart plug of the controller gives: On or Off
    plug,           \* a MiotBackend used on its own: config and initialized
    call,           \* the call in flight on plug
    child,          \* the subprocess of that call
    parse_output,   \* the tool output handed to the parser
    parse_on_value, \* the on_value handed to the parser
    parsed_value,   \* what parse_value_from_output returned, once called
    parsed_status,  \* what parse_power_status returned, once called
    key_arg,        \* the AtxKeyConfig handed to is_configured
    status_arg,     \* the AtxStatusConfig handed to is_configured
    key_configured,     \* what AtxKeyConfig::is_configured returned, once called
    status_configured   \* what AtxStatusConfig::is_configured returned, once called

\* the controller and its callers
ctlVars ==
    <<inner, writer, readers, pc, op, new_config, current_status, trace, result,
      acquired, queue>>

\* the device behind the controller's smart-plug backend
devVars == <<plug_power>>

\* the smart-plug backend on its own and the parser
toolVars ==
    <<plug, call, child, parse_output, parse_on_value, parsed_value, parsed_status>>

\* the configuration types on their own
typeVars == <<key_arg, status_arg, key_configured, status_configured>>

vars == <<ctlVars, devVars, toolVars, typeVars>>

WriteOps == {"init", "reload", "shutdown"}

ReadOps ==
    {"state", "is_available", "is_power_ready", "is_reset_ready", "power_short",
     "power_long", "reset", "power_status"}

Ops == WriteOps \cup ReadOps

LockFree == writer = {} /\ readers = {}

\* A caller invokes a public operation.
Call(p, ops) ==
    /\ pc[p] = "idle"
    /\ \E o \in ops :
        /\ op' = [op EXCEPT ![p] = o]
        /\ pc' = [pc EXCEPT ![p] =
                    CASE o = "init" -> "init_wait"
                      [] o \in {"reload", "shutdown"} -> "shutdown_wait"
                      [] OTHER -> "read_wait"]
    /\ UNCHANGED <<inner, writer, readers, new_config, current_status, trace, result>>
    /\ UNCHANGED <<acquired, queue, devVars, toolVars, typeVars>>

\* lock_write that waits for the writer only, not for the readers
lock_write_ignoring_readers(p) ==
    /\ pc[p] \in {"init_wait", "shutdown_wait", "config_wait"}
    /\ writer = {}
    /\ writer' = {p}
    /\ pc' = [pc EXCEPT ![p] =
                CASE pc[p] = "init_wait" -> "init_locked"
                  [] pc[p] = "shutdown_wait" -> "shutdown_locked"
                  [] pc[p] = "config_wait" -> "config_locked"]
    /\ UNCHANGED <<inner, readers, op, new_config, current_status, trace, result>>
    /\ acquired' = [acquired EXCEPT ![p] = @ + 1]
    /\ UNCHANGED <<queue, devVars, toolVars, typeVars>>

\* self.inner.write().await
lock_write(p) ==
    /\ pc[p] \in {"init_wait", "shutdown_wait", "config_wait"}
    /\ LockFree
    /\ writer' = {p}
    /\ pc' = [pc EXCEPT ![p] =
                CASE pc[p] = "init_wait" -> "init_locked"
                  [] pc[p] = "shutdown_wait" -> "shutdown_locked"
                  [] pc[p] = "config_wait" -> "config_locked"]
    /\ UNCHANGED <<inner, readers, op, new_config, current_status, trace, result>>
    /\ acquired' = [acquired EXCEPT ![p] = @ + 1]
    /\ UNCHANGED <<queue, devVars, toolVars, typeVars>>

\* self.inner.read().await
lock_read(p) ==
    /\ pc[p] = "read_wait"
    /\ writer = {}
    /\ readers' = readers \cup {p}
    /\ pc' = [pc EXCEPT ![p] = "read_locked"]
    /\ UNCHANGED <<inner, writer, op, new_config, current_status, trace, result>>
    /\ acquired' = [acquired EXCEPT ![p] = @ + 1]
    /\ UNCHANGED <<queue, devVars, toolVars, typeVars>>

\* AtxController::init, the body under the write lock; the guard is dropped
\* at the return
init(p, hw) ==
    /\ pc[p] = "init_locked"
    /\ \E oc \in InitOutcomesFor(inner, hw) :
        LET r == InitBody(inner, oc)
        IN /\ inner' = r.inner
           /\ trace' = [trace EXCEPT ![p] = @ \o r.events]
           /\ result' = [result EXCEPT ![p] = Some(r.res)]
    /\ writer' = {}
    /\ pc' = [pc EXCEPT ![p] = "done"]
    /\ UNCHANGED <<readers, op, new_config, current_status>>
    /\ UNCHANGED <<acquired, queue, devVars, toolVars, typeVars>>

\* AtxController::shutdown_internal, the body under the write lock, followed
\* by shutdown's return or by reload's next phase
shutdown_internal(p, hw) ==
    /\ pc[p] = "shutdown_locked"
    /\ \E oc \in ShutdownOutcomesFor(inner, hw) :
        LET r == ShutdownBody(inner, oc)
        IN /\ inner' = r.inner
           /\ trace' = [trace EXCEPT ![p] = @ \o r.events]
           /\ result' = [result EXCEPT ![p] =
                            IF op[p] = "shutdown" THEN Some(r.res) ELSE @]
    /\ writer' = {}
    /\ pc' = [pc EXCEPT ![p] = IF op[p] = "reload" THEN "config_wait" ELSE "done"]
    /\ UNCHANGED <<readers, op, new_config, current_status>>
    /\ UNCHANGED <<acquired, queue, devVars, toolVars, typeVars>>

\* AtxController::reload, the block that stores the new configuration; the
\* argument new_config is first read here
reload_config(p, cfgs) ==
    /\ pc[p] = "config_locked"
    /\ \E n \in cfgs :
        /\ new_config' = [new_config EXCEPT ![p] = Some(n)]
        /\ inner' = [inner EXCEPT !.config = n]
    /\ writer' = {}
    /\ pc' = [pc EXCEPT ![p] = "init_wait"]
    /\ UNCHANGED <<readers, op, current_status, trace, result>>
    /\ UNCHANGED <<acquired, queue, devVars, toolVars, typeVars>>

\* A reader returns res after doing events: the read guard is dropped.
ReadReturn(p, res, events) ==
    /\ readers' = readers \ {p}
    /\ pc' = [pc EXCEPT ![p] = "done"]
    /\ result' = [result EXCEPT ![p] = Some(res)]
    /\ trace' = [trace EXCEPT ![p] = @ \o events]

\* AtxController::state
state(p) ==
    /\ pc[p] = "read_locked" /\ op[p] = "state"
    /\ \E env \in StatusEnvsFor(inner) :
        LET s == get_power_status_inner(inner, env)
        IN ReadReturn(p, Ok(StateSnapshot(inner, s.status)), s.events)
    /\ UNCHANGED <<inner, writer, op, new_config, current_status>>
    /\ UNCHANGED <<acquired, queue, devVars, toolVars, typeVars>>

\* AtxController::is_available
is_available(p) ==
    /\ pc[p] = "read_locked" /\ op[p] = "is_available"
    /\ ReadReturn(p, Ok(inner.config.enabled), <<>>)
    /\ UNCHANGED <<inner, writer, op, new_config, current_status>>
    /\ UNCHANGED <<acquired, queue, devVars, toolVars, typeVars>>

\* AtxController::is_power_ready
is_power_ready(p) ==
    /\ pc[p] = "read_locked" /\ op[p] = "is_power_ready"
    /\ ReadReturn(p,
                  Ok(IF IsSome(inner.power_executor)
                     THEN Unwrap(inner.power_executor).initialized ELSE FALSE),
                  <<>>)
    /\ UNCHANGED <<inner, writer, op, new_config, current_status>>
    /\ UNCHANGED <<acquired, queue, devVars, toolVars, typeVars>>

\* AtxController::is_reset_ready
is_reset_ready(p) ==
    /\ pc[p] = "read_locked" /\ op[p] = "is_reset_ready"
    /\ ReadReturn(p,
                  Ok(IF IsSome(inner.reset_executor)
                     THEN Unwrap(inner.reset_executor).initialized ELSE FALSE),
                  <<>>)
    /\ UNCHANGED <<inner, writer, op, new_config, current_status>>
    /\ UNCHANGED <<acquired, queue, devVars, toolVars, typeVars>>

\* AtxController::power_short up to the set: the missing-backend errors, the
\* local pulse, or (Miot) the resolution of the current status
power_short(p) ==
    /\ pc[p] = "read_locked" /\ op[p] = "power_short"
    /\ IF inner.config.power.driver = "Miot"
       THEN IF ~IsSome(inner.miot_backend)
            THEN /\ ReadReturn(p, Err("MiIoT backend not initialized"), <<>>)
                 /\ UNCHANGED current_status
            ELSE \E env \in StatusEnvsFor(inner) :
                    LET s == get_power_status_inner(inner, env)
                    IN /\ current_status' = [current_status EXCEPT ![p] = Some(s.status)]
                       /\ trace' = [trace EXCEPT ![p] = @ \o s.events]
                       /\ pc' = [pc EXCEPT ![p] = "power_short_set"]
                       /\ UNCHANGED <<readers, result>>
       ELSE /\ IF ~IsSome(inner.power_executor)
               THEN ReadReturn(p, Err("Power button not configured"), <<>>)
               ELSE \E ok \in BOOLEAN :
                       LET r == AtxKeyExecutorPulse(Unwrap(inner.power_executor),
                                                    "power", "SHORT_PRESS", ok)
                       IN ReadReturn(p, r.res, r.events)
            /\ UNCHANGED current_status
    /\ UNCHANGED <<inner, writer, op, new_config>>
    /\ UNCHANGED <<acquired, queue, devVars, toolVars, typeVars>>

\* AtxController::power_short on a Miot key, the set that follows the status
power_short_set(p) ==
    /\ pc[p] = "power_short_set"
    /\ \E o \in SetOutcomes :
        LET cmd == PowerShortCommand(inner.config.power, Unwrap(current_status[p]))
            r == set_prop(Unwrap(inner.miot_backend), cmd[1], cmd[2], o)
        IN /\ ReadReturn(p, r.res, r.events)
           /\ plug_power' = PlugAfterSet(plug_power, cmd[1], cmd[2], r.res)
    /\ UNCHANGED <<inner, writer, op, new_config, current_status>>
    /\ UNCHANGED <<acquired, queue, toolVars, typeVars>>

\* AtxController::power_long
power_long(p) ==
    /\ pc[p] = "read_locked" /\ op[p] = "power_long"
    /\ IF inner.config.power.driver = "Miot"
       THEN IF ~IsSome(inner.miot_backend)
            THEN /\ ReadReturn(p, Err("MiIoT backend not initialized"), <<>>)
                 /\ UNCHANGED plug_power
            ELSE \E o \in SetOutcomes :
                    LET cmd == PowerLongCommand(inner.config.power)
                        r == set_prop(Unwrap(inner.miot_backend), cmd[1], cmd[2], o)
                    IN /\ ReadReturn(p, r.res, r.events)
                       /\ plug_power' = PlugAfterSet(plug_power, cmd[1], cmd[2], r.res)
       ELSE /\ IF ~IsSome(inner.power_executor)
               THEN ReadReturn(p, Err("Power button not configured"), <<>>)
               ELSE \E ok \in BOOLEAN :
                       LET r == AtxKeyExecutorPulse(Unwrap(inner.power_executor),
                                                    "power", "LONG_PRESS", ok)
                       IN ReadReturn(p, r.res, r.events)
            /\ UNCHANGED plug_power
    /\ UNCHANGED <<inner, writer, op, new_config, current_status>>
    /\ UNCHANGED <<acquired, queue, toolVars, typeVars>>

\* reset that drops the executor whose pulse failed
reset_dropping_failed_executor(p) ==
    /\ pc[p] = "read_locked" /\ op[p] = "reset"
    /\ IF inner.config.reset.driver = "Miot" \/ ~IsSome(inner.reset_executor)
       THEN /\ ReadReturn(p, Err("Reset button not configured"), <<>>)
            /\ UNCHANGED inner
       ELSE \E ok \in BOOLEAN :
               LET r == AtxKeyExecutorPulse(Unwrap(inner.reset_executor),
                                            "reset", "RESET_PRESS", ok)
               IN /\ ReadReturn(p, r.res, r.events)
                  /\ inner' = IF ok THEN inner
                               ELSE [inner EXCEPT !.reset_executor = NoneOpt]
    /\ UNCHANGED <<writer, op, new_config, current_status>>
    /\ UNCHANGED <<acquired, queue, devVars, toolVars, typeVars>>

\* AtxController::reset
reset(p) ==
    /\ pc[p] = "read_locked" /\ op[p] = "reset"
    /\ IF inner.config.reset.driver = "Miot"
       THEN IF ~IsSome(inner.miot_backend)
            THEN /\ ReadReturn(p, Err("MiIoT backend not initialized"), <<>>)
                 /\ UNCHANGED plug_power
            ELSE \E o \in SetOutcomes :
                    LET cmd == ResetCommand(inner.config.reset)
                        r == set_prop(Unwrap(inner.miot_backend), cmd[1], cmd[2], o)
                    IN /\ ReadReturn(p, r.res, r.events)
                       /\ plug_power' = PlugAfterSet(plug_power, cmd[1], cmd[2], r.res)
       ELSE /\ IF ~IsSome(inner.reset_executor)
               THEN ReadReturn(p, Err("Reset button not configured"), <<>>)
               ELSE \E ok \in BOOLEAN :
                       LET r == AtxKeyExecutorPulse(Unwrap(inner.reset_executor),
                                                    "reset", "RESET_PRESS", ok)
                       IN ReadReturn(p, r.res, r.events)
            /\ UNCHANGED plug_power
    /\ UNCHANGED <<inner, writer, op, new_config, current_status>>
    /\ UNCHANGED <<acquired, queue, toolVars, typeVars>>

\* AtxController::power_status
power_status(p) ==
    /\ pc[p] = "read_locked" /\ op[p] = "power_status"
    /\ \E env \in StatusEnvsFor(inner) :
        LET s == get_power_status_inner(inner, env)
        IN ReadReturn(p, Ok(s.status), s.events)
    /\ UNCHANGED <<inner, writer, op, new_config, current_status>>
    /\ UNCHANGED <<acquired, queue, devVars, toolVars, typeVars>>

\* The caller has its result and may call again.
Return(p) ==
    /\ pc[p] = "done"
    /\ pc' = [pc EXCEPT ![p] = "idle"]
    /\ op' = [op EXCEPT ![p] = "none"]
    /\ new_config' = [new_config EXCEPT ![p] = NoneOpt]
    /\ current_status' = [current_status EXCEPT ![p] = NoneOpt]
    /\ trace' = [trace EXCEPT ![p] = <<>>]
    /\ result' = [result EXCEPT ![p] = NoneOpt]
    /\ UNCHANGED <<inner, writer, readers>>
    /\ acquired' = [acquired EXCEPT ![p] = 0]
    /\ UNCHANGED <<queue, devVars, toolVars, typeVars>>

\* The smart-plug backend used on its own is not in use, the parser has no
\* input: the state of both while the controller is exercised.
IdleCall ==
    [op |-> "none", pc |-> "idle", prop |-> "", outcome |-> NoneOpt,
     result |-> NoneOpt, spawned |-> 0]

NoChild == [state |-> "none", code |-> 0, stdout |-> <<>>]

InitPlugIdle ==
    /\ plug = MiotBackendNew(DefaultMiotConfig)
    /\ call = IdleCall
    /\ child = NoChild

InitParserIdle ==
    /\ parse_output = <<>>
    /\ parse_on_value = <<>>
    /\ parsed_value = NoneOpt
    /\ parsed_status = NoneOpt

InitTypesIdle ==
    /\ key_arg = DefaultKeyConfig
    /\ status_arg = DefaultStatusConfig
    /\ key_configured = NoneOpt
    /\ status_configured = NoneOpt

InitCallers ==
    /\ writer = {}
    /\ readers = {}
    /\ pc = [p \in Callers |-> "idle"]
    /\ op = [p \in Callers |-> "none"]
    /\ new_config = [p \in Callers |-> NoneOpt]
    /\ current_status = [p \in Callers |-> NoneOpt]
    /\ trace = [p \in Callers |-> <<>>]
    /\ result = [p \in Callers |-> NoneOpt]
    /\ acquired = [p \in Callers |-> 0]
    /\ queue = <<>>
    /\ plug_power = "Off"

\* One caller at a time: a controller built from any configuration and driven
\* by a single caller.
Init ==
    /\ inner \in {NewInner(c) : c \in Configs \cup {DefaultConfig}}
    /\ InitCallers
    /\ InitPlugIdle
    /\ InitParserIdle
    /\ InitTypesIdle

\* the single caller
Caller == CHOOSE p \in Callers : \A q \in Callers : p <= q

Next ==
    \/ Call(Caller, Ops)
    \/ lock_write(Caller)
    \/ lock_read(Caller)
    \/ init(Caller, HwOutcomes)
    \/ shutdown_internal(Caller, HwOutcomes)
    \/ reload_config(Caller, Configs)
    \/ state(Caller)
    \/ is_available(Caller)
    \/ is_power_ready(Caller)
    \/ is_reset_ready(Caller)
    \/ power_short(Caller)
    \/ power_short_set(Caller)
    \/ power_long(Caller)
    \/ reset(Caller)
    \/ power_status(Caller)
    \/ Return(Caller)

Spec == Init /\ [][Next]_vars

----------------------------------------------------------------------------
\* Concurrent callers: every caller runs any operation at any time, over a
\* few configurations.

LocalConfig ==
    [enabled |-> TRUE,
     power |-> [driver |-> "Gpio", device |-> "/dev/gpiochip0", prop |-> "",
                value |-> "True", off_prop |-> "on", off_value |-> "False"],
     reset |-> [driver |-> "None", device |-> "", prop |-> "",
                value |-> "", off_prop |-> "", off_value |-> ""],
     status |-> [driver |-> "Led", gpio_chip |-> "/dev/gpiochip1", prop |-> "",
                 on_value |-> <<"T", "r", "u", "e">>],
     miot |-> [did |-> "", command |-> "mijiaAPI"]]

PlugConfig ==
    [enabled |-> TRUE,
     power |-> [driver |-> "Miot", device |-> "", prop |-> "on",
                value |-> "True", off_prop |-> "on", off_value |-> "False"],
     reset |-> [driver |-> "Miot", device |-> "", prop |-> "name",
                value |-> "1", off_prop |-> "", off_value |-> ""],
     status |-> [driver |-> "Miot", gpio_chip |-> "", prop |-> "on",
                 on_value |-> <<"T", "r", "u", "e">>],
     miot |-> [did |-> "2094828328", command |-> "mijiaAPI"]]

ConcConfigs == {LocalConfig, PlugConfig}

InitConc ==
    /\ inner \in {NewInner(c) : c \in ConcConfigs}
    /\ InitCallers
    /\ InitPlugIdle
    /\ InitParserIdle
    /\ InitTypesIdle

\* the operations the concurrent callers run
ConcOps == WriteOps \cup {"power_short", "state"}

\* every hardware init and teardown succeeds
HwAllOk == {[power |-> TRUE, reset |-> TRUE, led |-> TRUE]}

NextConc ==
    \E p \in Callers :
        \/ Call(p, ConcOps)
        \/ lock_write(p)
        \/ lock_read(p)
        \/ init(p, HwAllOk)
        \/ shutdown_internal(p, HwAllOk)
        \/ reload_config(p, ConcConfigs)
        \/ state(p)
        \/ power_short(p)
        \/ power_short_set(p)
        \/ Return(p)

SpecConc == InitConc /\ [][NextConc]_vars

----------------------------------------------------------------------------
\* Concurrent callers under the lock's queue.  The tokio RwLock serves its
\* waiters in order of arrival: a caller that awaits read() or write() joins
\* the queue, and only the caller at its head is served.

WaitingForWrite == {"init_wait", "shutdown_wait", "config_wait"}

\* The caller starts to await read() or write(): it joins the queue.
enqueue(p) ==
    /\ pc[p] \in WaitingForWrite \cup {"read_wait"}
    /\ \A i \in DOMAIN queue : queue[i] # p
    /\ queue' = Append(queue, p)
    /\ UNCHANGED <<inner, writer, readers, pc, op, new_config, current_status,
                   trace, result, acquired, devVars, toolVars, typeVars>>

\* lock_read_queued that is served as soon as no writer holds the lock,
\* whoever waits before it
lock_read_barging(p) ==
    /\ pc[p] = "read_wait"
    /\ \E i \in DOMAIN queue : queue[i] = p
    /\ writer = {}
    /\ readers' = readers \cup {p}
    /\ queue' = SelectSeq(queue, LAMBDA q : q # p)
    /\ pc' = [pc EXCEPT ![p] = "read_locked"]
    /\ acquired' = [acquired EXCEPT ![p] = @ + 1]
    /\ UNCHANGED <<inner, writer, op, new_config, current_status, trace, result,
                   devVars, toolVars, typeVars>>

\* self.inner.read().await, served at the head of the queue
lock_read_queued(p) ==
    /\ pc[p] = "read_wait"
    /\ queue # <<>> /\ Head(queue) = p
    /\ writer = {}
    /\ readers' = readers \cup {p}
    /\ queue' = Tail(queue)
    /\ pc' = [pc EXCEPT ![p] = "read_locked"]
    /\ acquired' = [acquired EXCEPT ![p] = @ + 1]
    /\ UNCHANGED <<inner, writer, op, new_config, current_status, trace, result,
                   devVars, toolVars, typeVars>>

\* self.inner.write().await, served at the head of the queue
lock_write_queued(p) ==
    /\ pc[p] \in WaitingForWrite
    /\ queue # <<>> /\ Head(queue) = p
    /\ LockFree
    /\ writer' = {p}
    /\ queue' = Tail(queue)
    /\ pc' = [pc EXCEPT ![p] =
                CASE pc[p] = "init_wait" -> "init_locked"
                  [] pc[p] = "shutdown_wait" -> "shutdown_locked"
                  [] pc[p] = "config_wait" -> "config_locked"]
    /\ acquired' = [acquired EXCEPT ![p] = @ + 1]
    /\ UNCHANGED <<inner, readers, op, new_config, current_status, trace, result,
                   devVars, toolVars, typeVars>>

\* what a caller does once it has called: every step but the call itself
Proceed(p) ==
    \/ enqueue(p)
    \/ lock_write_queued(p)
    \/ lock_read_queued(p)
    \/ init(p, HwAllOk)
    \/ shutdown_internal(p, HwAllOk)
    \/ reload_config(p, ConcConfigs)
    \/ state(p)
    \/ power_status(p)
    \/ power_short(p)
    \/ power_short_set(p)
    \/ power_long(p)
    \/ reset(p)
    \/ Return(p)

\* The callers that run in SpecLive: two of them, so that the graph the
\* temporal check walks stays small.
LiveCallers == {p \in Callers : p <= 2}

NextLive ==
    \E p \in LiveCallers :
        \/ Call(p, WriteOps \cup {"state", "power_status", "power_short",
                                  "power_long", "reset"})
        \/ Proceed(p)

\* Every pulse, read, initialisation and subprocess call terminates, and the
\* runtime polls every task that can proceed.
SpecLive ==
    /\ InitConc
    /\ [][NextLive]_vars
    /\ \A p \in LiveCallers : WF_vars(Proceed(p))

----------------------------------------------------------------------------
\* The parser on its own: parse_value_from_output and parse_power_status
\* applied to every text of at most MaxLen characters.

MaxLen == 7

\* the marker's two characters, a letter, a blank and the line break
Alphabet == {"zhi", "wei", "t", " ", "\n"}

Texts == UNION {[1..n -> Alphabet] : n \in 0..MaxLen}

OnValues == {<<"T">>, <<"t", "t">>}

InitParse ==
    /\ inner = NewInner(DefaultConfig)
    /\ InitCallers
    /\ InitPlugIdle
    /\ InitTypesIdle
    /\ parse_output \in Texts
    /\ parse_on_value \in OnValues
    /\ parsed_value = NoneOpt
    /\ parsed_status = NoneOpt

\* a call of parse_value_from_output(output)
CallParseValue ==
    /\ parsed_value = NoneOpt
    /\ parsed_value' = Some(parse_value_from_output(parse_output))
    /\ UNCHANGED <<ctlVars, devVars, typeVars, plug, call, child, parse_output, parse_on_value,
                   parsed_status>>

\* a call of parse_power_status(output, on_value)
CallParsePowerStatus ==
    /\ parsed_status = NoneOpt
    /\ parsed_status' = Some(parse_power_status(parse_output, parse_on_value))
    /\ UNCHANGED <<ctlVars, devVars, typeVars, plug, call, child, parse_output, parse_on_value,
                   parsed_value>>

NextParse ==
    \/ CallParseValue
    \/ CallParsePowerStatus

SpecParse == InitParse /\ [][NextParse]_vars

----------------------------------------------------------------------------
\* The smart-plug backend on its own: one MiotBackend, one call at a time,
\* and the child process of the call.  A set or a get spawns the tool and
\* waits for it under the 30 s timeout; the child lives in the future of the
\* call (wait_with_output takes it by value), so it is dropped with it.

PlugProps == {"on", "name"}

PlugValue == "True"

PlugOnValue == <<"T", "r", "u", "e">>

\* Drop of a Child without kill_on_drop: a running child runs on
DropChildLeavesRunning(c) == c

\* Drop of a Child built with kill_on_drop(true)
DropChild(c) == IF c.state = "running" THEN [c EXCEPT !.state = "killed"] ELSE c

\* what the call o on property prop returns for the outcome of its subprocess
CallResult(o, prop, outcome) ==
    CASE o = "set_prop" -> set_prop(plug, prop, PlugValue, outcome).res
      [] o = "get_prop" -> get_prop(plug, prop, outcome).res
      [] o = "get_power_status" ->
            get_power_status(plug, prop, PlugOnValue, outcome).res

InitPlug ==
    /\ inner = NewInner(DefaultConfig)
    /\ InitCallers
    /\ InitParserIdle
    /\ InitTypesIdle
    /\ plug \in {MiotBackendNew(c) : c \in MiotConfigs}
    /\ call = IdleCall
    /\ child = NoChild

\* MiotBackend::init
CallPlugInit ==
    /\ call.pc = "idle"
    /\ LET r == MiotBackendInit(plug)
       IN /\ plug' = r.backend
          /\ call' = [IdleCall EXCEPT !.op = "init", !.pc = "returned",
                                      !.result = Some(r.res)]
    /\ UNCHANGED <<ctlVars, devVars, typeVars, child, parse_output, parse_on_value, parsed_value,
                   parsed_status>>

\* MiotBackend::shutdown
CallPlugShutdown ==
    /\ call.pc = "idle"
    /\ LET r == MiotBackendShutdown(plug)
       IN /\ plug' = r.backend
          /\ call' = [IdleCall EXCEPT !.op = "shutdown", !.pc = "returned",
                                      !.result = Some(r.res)]
    /\ UNCHANGED <<ctlVars, devVars, typeVars, child, parse_output, parse_on_value, parsed_value,
                   parsed_status>>

\* Command::spawn at the head of run_get / run_set: it fails and the call
\* returns the error, or the child runs and the call waits for it
SpawnFor(o, prop) ==
    \/ /\ call' = [IdleCall EXCEPT
                        !.op = o, !.pc = "returned", !.prop = prop,
                        !.outcome = Some(Outcome("spawn_failed", 0, <<>>)),
                        !.result = Some(CallResult(o, prop,
                                            Outcome("spawn_failed", 0, <<>>)))]
       /\ UNCHANGED child
    \/ /\ call' = [IdleCall EXCEPT !.op = o, !.pc = "waiting", !.prop = prop,
                                    !.spawned = 1]
       /\ child' = [NoChild EXCEPT !.state = "running"]

\* MiotBackend::set_prop, up to the wait
CallSetProp ==
    /\ call.pc = "idle"
    /\ \E prop \in PlugProps : SpawnFor("set_prop", prop)
    /\ UNCHANGED <<ctlVars, devVars, typeVars, plug, parse_output, parse_on_value, parsed_value,
                   parsed_status>>

\* MiotBackend::get_prop, up to the wait
CallGetProp ==
    /\ call.pc = "idle"
    /\ \E prop \in PlugProps : SpawnFor("get_prop", prop)
    /\ UNCHANGED <<ctlVars, devVars, typeVars, plug, parse_output, parse_on_value, parsed_value,
                   parsed_status>>

\* MiotBackend::get_power_status, up to the wait; not initialized, it returns
\* at once
CallGetPowerStatus ==
    /\ call.pc = "idle"
    /\ \E prop \in PlugProps :
        IF ~plug.initialized
        THEN /\ call' = [IdleCall EXCEPT
                            !.op = "get_power_status", !.pc = "returned",
                            !.prop = prop,
                            !.result = Some(CallResult("get_power_status", prop,
                                                Outcome("spawn_failed", 0, <<>>)))]
             /\ UNCHANGED child
        ELSE SpawnFor("get_power_status", prop)
    /\ UNCHANGED <<ctlVars, devVars, typeVars, plug, parse_output, parse_on_value, parsed_value,
                   parsed_status>>

\* The child writes its standard output into the pipe.
ChildWrites ==
    /\ child.state = "running" /\ child.stdout = <<>>
    /\ \E o \in SampleOutputs \ {OutEmpty} :
        child' = [child EXCEPT !.stdout = o]
    /\ UNCHANGED <<ctlVars, devVars, typeVars, plug, call, parse_output, parse_on_value,
                   parsed_value, parsed_status>>

\* The child exits with a code.
ChildExits ==
    /\ child.state = "running"
    /\ \E code \in {0, 1} :
        child' = [child EXCEPT !.state = "exited", !.code = code]
    /\ UNCHANGED <<ctlVars, devVars, typeVars, plug, call, parse_output, parse_on_value,
                   parsed_value, parsed_status>>

\* The call ends with the outcome of its subprocess: the child is dropped
\* with the future that held it.
EndCall(outcome) ==
    /\ call' = [call EXCEPT !.pc = "returned", !.outcome = Some(outcome),
                            !.result = Some(CallResult(call.op, call.prop, outcome))]
    /\ child' = DropChild(child)

\* child.wait_with_output() completes within the timeout
WaitReturns ==
    /\ call.pc = "waiting" /\ child.state = "exited"
    /\ EndCall(Outcome("exited", child.code, child.stdout))
    /\ UNCHANGED <<ctlVars, devVars, typeVars, plug, parse_output, parse_on_value, parsed_value,
                   parsed_status>>

\* child.wait_with_output() fails
WaitFails ==
    /\ call.pc = "waiting"
    /\ EndCall(Outcome("wait_failed", 0, <<>>))
    /\ UNCHANGED <<ctlVars, devVars, typeVars, plug, parse_output, parse_on_value, parsed_value,
                   parsed_status>>

\* tokio::time::timeout(COMMAND_TIMEOUT, ..) elapses before the wait completes
TimeoutFires ==
    /\ call.pc = "waiting"
    /\ EndCall(Outcome("timed_out", 0, <<>>))
    /\ UNCHANGED <<ctlVars, devVars, typeVars, plug, parse_output, parse_on_value, parsed_value,
                   parsed_status>>

\* The caller is cancelled while it waits: the future of the call is dropped
\* and the child with it; nothing is returned.
CallerCancels ==
    /\ call.pc = "waiting"
    /\ call' = [call EXCEPT !.pc = "cancelled"]
    /\ child' = DropChild(child)
    /\ UNCHANGED <<ctlVars, devVars, typeVars, plug, parse_output, parse_on_value, parsed_value,
                   parsed_status>>

\* The call is over; the backend takes the next one.
PlugReturn ==
    /\ call.pc \in {"returned", "cancelled"}
    /\ call' = IdleCall
    /\ child' = NoChild
    /\ UNCHANGED <<ctlVars, devVars, typeVars, plug, parse_output, parse_on_value, parsed_value,
                   parsed_status>>

NextPlug ==
    \/ CallPlugInit
    \/ CallPlugShutdown
    \/ CallSetProp
    \/ CallGetProp
    \/ CallGetPowerStatus
    \/ ChildWrites
    \/ ChildExits
    \/ WaitReturns
    \/ WaitFails
    \/ TimeoutFires
    \/ CallerCancels
    \/ PlugReturn

SpecPlug == InitPlug /\ [][NextPlug]_vars

----------------------------------------------------------------------------
\* The configuration types on their own: is_configured applied to every key
\* and status configuration, every field empty or filled.

KeyConfigArgs ==
    [driver : AtxDriverType, device : {"", "/dev/gpiochip0"}, pin : {0, 17},
     active_level : {"High", "Low"}, prop : {"", "on"}, value : {"", "True"},
     off_prop : {"", "on"}, off_value : {"", "False"}]

StatusConfigArgs ==
    [driver : AtxStatusDriverType, gpio_chip : {"", "/dev/gpiochip1"},
     gpio_pin : {0, 17}, inverted : BOOLEAN, prop : {"", "on"},
     on_value : {<<>>, <<"T", "r", "u", "e">>}]

InitTypes ==
    /\ inner = NewInner(DefaultConfig)
    /\ InitCallers
    /\ InitPlugIdle
    /\ InitParserIdle
    /\ key_arg \in KeyConfigArgs
    /\ status_arg \in StatusConfigArgs
    /\ key_configured = NoneOpt
    /\ status_configured = NoneOpt

\* a call of AtxKeyConfig::is_configured
CallKeyIsConfigured ==
    /\ key_configured = NoneOpt
    /\ key_configured' = Some(KeyIsConfigured(key_arg))
    /\ UNCHANGED <<ctlVars, devVars, toolVars, key_arg, status_arg, status_configured>>

\* a call of AtxStatusConfig::is_configured
CallStatusIsConfigured ==
    /\ status_configured = NoneOpt
    /\ status_configured' = Some(StatusIsConfigured(status_arg))
    /\ UNCHANGED <<ctlVars, devVars, toolVars, key_arg, status_arg, key_configured>>

NextTypes ==
    \/ CallKeyIsConfigured
    \/ CallStatusIsConfigured

SpecTypes == InitTypes /\ [][NextTypes]_vars

----------------------------------------------------------------------------
\* Properties.

HandleFields == {"miot_backend", "power_executor", "reset_executor", "led_sensor"}

AllOk == [power |-> TRUE, reset |-> TRUE, led |-> TRUE]

\* The bundle init builds from config on a fresh controller when every
\* backend initialises.
FreshInit(config) == InitBody(NewInner(config), AllOk).inner

\* Every handle present in bundle in is the one init constructs from the
\* configuration stored in in.
BuiltFromStoredConfig(in) ==
    \A h \in HandleFields : IsSome(in[h]) => in[h] = FreshInit(in.config)[h]

InitEvents(t) == SelectSeq(t, LAMBDA e : e[1] = "init")

Occurs(e, t) == \E i \in 1..Len(t) : t[i] = e

\* C1: under any interleaving of init, reload and shutdown calls, a reader
\* holding the shared lock never observes a half-applied reload: every handle
\* present in the bundle was constructed from the configuration stored in it.
C1_ReaderSeesNoHalfAppliedReload ==
    readers # {} => BuiltFromStoredConfig(inner)

\* C2: when reload(new_config) has run to completion with no other mutating
\* call overlapping it, the stored config is new_config and the handles are
\* exactly those init builds from new_config on a fresh controller under the
\* same backend initialisation outcomes; nothing of the previous handles is
\* left.
C2_ReloadReflectsNewConfigOnly ==
    \A p \in Callers :
        (pc[p] = "done" /\ op[p] = "reload") =>
            /\ inner.config = Unwrap(new_config[p])
            /\ \E oc \in HwOutcomes :
                LET fresh == InitBody(NewInner(Unwrap(new_config[p])), oc)
                IN /\ inner = fresh.inner
                   /\ InitEvents(trace[p]) = fresh.events

\* a reload that tore down a sensor and an executor, met a failing executor
\* init and installed the smart-plug backend
C2_Witness ==
    \E p \in Callers :
        /\ pc[p] = "done" /\ op[p] = "reload"
        /\ Occurs(<<"teardown", "led", "ok">>, trace[p])
        /\ Occurs(<<"teardown", "power", "err">>, trace[p])
        /\ Occurs(<<"init", "power", "err">>, trace[p])
        /\ IsSome(inner.miot_backend)
        /\ ~IsSome(inner.led_sensor)

\* C3: while a caller holds the shared lock, for the whole of its status
\* query, subprocess call or pulse, no phase of init, reload or shutdown
\* changes the config or any handle, and no caller obtains the exclusive lock;
\* a writer obtains it only when no shared holder is left.
C3_SharedHoldersExcludeWriters ==
    [][/\ readers # {} => (inner' = inner /\ writer' = {})
       /\ (writer = {} /\ writer' # {}) => readers = {}
       /\ inner' # inner => (writer # {} /\ readers = {})]_vars

\* a power_short between its status query and its set, holding the shared
\* lock, while a reload waits for the exclusive lock
C3_Witness ==
    \E p, q \in Callers :
        /\ pc[p] = "power_short_set" /\ p \in readers
        /\ op[q] = "reload" /\ pc[q] \in {"shutdown_wait", "config_wait", "init_wait"}

\* the handle the init step of backend b leaves in bundle in
HandleOf(in, b) ==
    CASE b = "miot" -> in.miot_backend
      [] b = "power" -> in.power_executor
      [] b = "reset" -> in.reset_executor
      [] b = "led" -> in.led_sensor

Backends == {"miot", "power", "reset", "led"}

\* the construction steps init attempts for a configuration
Attempted(config, b) ==
    CASE b = "miot" ->
            (config.power.driver = "Miot" \/ config.reset.driver = "Miot"
             \/ config.status.driver = "Miot") /\ config.miot.did # ""
      [] b = "power" -> config.power.driver # "Miot" /\ KeyIsConfigured(config.power)
      [] b = "reset" -> config.reset.driver # "Miot" /\ KeyIsConfigured(config.reset)
      [] b = "led" -> config.status.driver = "Led" /\ StatusIsConfigured(config.status)

\* caller p is at the step in which init runs its body and returns
InitReturns(p) == pc[p] = "init_locked" /\ pc'[p] = "done"

\* C4 as claimed: init returns success from every state it is called in, and
\* every construction step whose backend failed to initialise has left its
\* handle absent when init returns.
C4_FailedStepLeavesHandleAbsent ==
    \A p \in Callers :
        (pc[p] = "done" /\ op[p] = "init") =>
            /\ result[p] = Some(OkUnit)
            /\ \A b \in Backends :
                Occurs(<<"init", b, "err">>, trace[p]) => ~IsSome(HandleOf(inner, b))

\* C4 as amended: init returns success for every combination of backend
\* failures and from every state; it attempts every construction step its
\* config asks for, whatever the other steps did; a step that succeeds
\* installs its handle, and a step that fails leaves its slot as it was before
\* the call (absent on a fresh or shut-down controller, the earlier handle
\* when init is called again without a shutdown).
C4_FailedStepLeavesSlotUntouched ==
    [][\A p \in Callers :
        (InitReturns(p) /\ inner.config.enabled) =>
            /\ result'[p] = Some(OkUnit)
            /\ \A b \in Backends :
                IF Attempted(inner.config, b)
                THEN \/ /\ Occurs(<<"init", b, "ok">>, trace'[p])
                        /\ IsSome(HandleOf(inner', b))
                        /\ Unwrap(HandleOf(inner', b)).initialized
                     \/ /\ Occurs(<<"init", b, "err">>, trace'[p])
                        /\ HandleOf(inner', b) = HandleOf(inner, b)
                        /\ (inner = NewInner(inner.config)
                                => ~IsSome(HandleOf(inner', b)))
                ELSE /\ \A e \in {"ok", "err"} : ~Occurs(<<"init", b, e>>, trace'[p])
                     /\ HandleOf(inner', b) = HandleOf(inner, b)]_vars

\* an init whose power executor failed and whose reset executor and sensor
\* were installed all the same
C4_Witness ==
    \E p \in Callers :
        /\ pc[p] = "done" /\ op[p] = "init"
        /\ Occurs(<<"init", "power", "err">>, trace[p])
        /\ Occurs(<<"init", "reset", "ok">>, trace[p])
        /\ Occurs(<<"init", "led", "ok">>, trace[p])
        /\ ~IsSome(inner.power_executor)
        /\ IsSome(inner.reset_executor) /\ IsSome(inner.led_sensor)

\* C5: after init on a freshly constructed, enabled controller whose backend
\* initialisations all succeed, the smart-plug handle is present iff some
\* driver is Miot and the MiotConfig is configured, the power (reset) executor
\* iff the power (reset) driver is not Miot and the key is configured, the LED
\* sensor iff the status driver is Led and the status section is configured.
C5_FreshInitBuildsExactlyTheConfiguredBackends ==
    [][\A p \in Callers :
        (/\ InitReturns(p) /\ op[p] = "init"
         /\ inner = NewInner(inner.config) /\ inner.config.enabled
         /\ \A b \in Backends : ~Occurs(<<"init", b, "err">>, trace'[p])) =>
            LET c == inner.config
            IN /\ IsSome(inner'.miot_backend) <=>
                    ((c.power.driver = "Miot" \/ c.reset.driver = "Miot"
                      \/ c.status.driver = "Miot") /\ MiotIsConfigured(c.miot))
               /\ IsSome(inner'.power_executor) <=>
                    (c.power.driver # "Miot" /\ KeyIsConfigured(c.power))
               /\ IsSome(inner'.reset_executor) <=>
                    (c.reset.driver # "Miot" /\ KeyIsConfigured(c.reset))
               /\ IsSome(inner'.led_sensor) <=>
                    (c.status.driver = "Led" /\ StatusIsConfigured(c.status))]_vars

\* an init that built the smart-plug backend for the status driver alone, next
\* to two local executors
C5_Witness ==
    \E p \in Callers :
        /\ pc[p] = "done" /\ op[p] = "init"
        /\ inner.config.status.driver = "Miot"
        /\ inner.config.power.driver = "Gpio"
        /\ inner.config.reset.driver = "UsbRelay"
        /\ IsSome(inner.miot_backend)
        /\ IsSome(inner.power_executor) /\ IsSome(inner.reset_executor)
        /\ ~IsSome(inner.led_sensor)

\* C6: init on a controller whose config has enabled = false returns success,
\* initialises no backend and leaves the config and the four handle slots
\* unchanged, however the key, status and miot sections are filled in.
C6_DisabledInitIsNoOp ==
    [][\A p \in Callers :
        (InitReturns(p) /\ ~inner.config.enabled) =>
            /\ result'[p] = Some(OkUnit)
            /\ inner' = inner
            /\ InitEvents(trace'[p]) = <<>>]_vars

\* a disabled init on a config whose keys, status and plug are all filled in
C6_Witness ==
    \E p \in Callers :
        /\ pc[p] = "done" /\ op[p] = "init"
        /\ ~inner.config.enabled
        /\ KeyIsConfigured(inner.config.power)
        /\ inner.config.reset.driver = "Miot" /\ KeyIsConfigured(inner.config.reset)
        /\ StatusIsConfigured(inner.config.status)
        /\ MiotIsConfigured(inner.config.miot)
        /\ inner = NewInner(inner.config)

\* caller p is at the step in which shutdown() runs its body and returns
ShutdownReturns(p) ==
    pc[p] = "shutdown_locked" /\ op[p] = "shutdown" /\ pc'[p] = "done"

\* C7: shutdown returns success from every state, also when teardowns fail;
\* when it returns the four handles are absent and the config is the one
\* stored before; a shutdown of a controller without handles (a second
\* shutdown) succeeds and changes nothing.
C7_ShutdownClearsHandlesKeepsConfig ==
    [][\A p \in Callers :
        ShutdownReturns(p) =>
            /\ result'[p] = Some(OkUnit)
            /\ inner' = NewInner(inner.config)
            /\ (inner = NewInner(inner.config) => inner' = inner)]_vars

\* a shutdown that returned after the teardown of an executor and of the
\* sensor failed
C7_Witness ==
    \E p \in Callers :
        /\ pc[p] = "done" /\ op[p] = "shutdown"
        /\ Occurs(<<"teardown", "power", "err">>, trace[p])
        /\ Occurs(<<"teardown", "led", "err">>, trace[p])
        /\ Occurs(<<"teardown", "miot", "ok">>, trace[p])
        /\ result[p] = Some(OkUnit)

\* the handle of the status backend the config selects: Some(handle) or None
SelectedStatusHandle(in) ==
    CASE in.config.status.driver = "Led" -> in.led_sensor
      [] in.config.status.driver = "Miot" -> in.miot_backend
      [] OTHER -> NoneOpt

\* C8: state() returns available = config.enabled; power_configured =
\* power.is_configured() and (power driver is not Miot or the smart-plug
\* handle is present), likewise reset_configured; power_status = the status
\* resolver's output; status_supported only if the handle of the selected
\* status backend is present and initialized, never for driver None.  On the
\* default config all of them are false and the status is Unknown.
C8_StateSnapshot ==
    \A p \in Callers :
        (pc[p] = "done" /\ op[p] = "state") =>
            LET s == Unwrap(Unwrap(result[p]).val)
                c == inner.config
            IN /\ Unwrap(result[p]).ok
               /\ s.available = c.enabled
               /\ s.power_configured =
                    (KeyIsConfigured(c.power)
                     /\ (c.power.driver # "Miot" \/ IsSome(inner.miot_backend)))
               /\ s.reset_configured =
                    (KeyIsConfigured(c.reset)
                     /\ (c.reset.driver # "Miot" \/ IsSome(inner.miot_backend)))
               /\ \E env \in StatusEnvsFor(inner) :
                    /\ s.power_status = get_power_status_inner(inner, env).status
                    /\ trace[p] = get_power_status_inner(inner, env).events
               /\ s.status_supported =>
                    /\ IsSome(SelectedStatusHandle(inner))
                    /\ Unwrap(SelectedStatusHandle(inner)).initialized
               /\ c.status.driver = "None" => ~s.status_supported
               /\ c = DefaultConfig =>
                    s = [available |-> FALSE, power_configured |-> FALSE,
                         reset_configured |-> FALSE, power_status |-> "Unknown",
                         status_supported |-> FALSE]

\* a snapshot of a Miot-driven power key without the smart-plug backend:
\* configured key, power_configured false
C8_Witness ==
    \E p \in Callers :
        /\ pc[p] = "done" /\ op[p] = "state"
        /\ inner.config.power.driver = "Miot"
        /\ KeyIsConfigured(inner.config.power)
        /\ ~IsSome(inner.miot_backend)
        /\ inner.config.enabled
        /\ ~Unwrap(Unwrap(result[p]).val).power_configured
        /\ Unwrap(Unwrap(result[p]).val).reset_configured

SetEvents(t) == SelectSeq(t, LAMBDA e : e[1] = "set")

\* C9: power_short on a Miot-driven power key with the smart-plug handle
\* present first resolves the power status through the status resolver and
\* then issues exactly one set: (off_prop, off_value) when the status is On,
\* (prop, value) when it is Off or Unknown.
C9_PowerShortTogglesOnSensedStatus ==
    \A p \in Callers :
        (/\ pc[p] = "done" /\ op[p] = "power_short"
         /\ inner.config.power.driver = "Miot" /\ IsSome(inner.miot_backend)) =>
            LET power == inner.config.power
                status == Unwrap(current_status[p])
                sent == IF status = "On"
                        THEN <<"set", power.off_prop, power.off_value>>
                        ELSE <<"set", power.prop, power.value>>
            IN /\ status \in PowerStatus
               /\ \E env \in StatusEnvsFor(inner) :
                    LET r == get_power_status_inner(inner, env)
                    IN /\ status = r.status
                       /\ trace[p] = r.events \o <<sent>>
               /\ Len(SetEvents(trace[p])) = 1

\* a power_short whose status query failed (Unknown) and that sent the
\* power-on pair
C9_Witness ==
    \E p \in Callers :
        /\ pc[p] = "done" /\ op[p] = "power_short"
        /\ inner.config.power.driver = "Miot" /\ IsSome(inner.miot_backend)
        /\ inner.config.status.driver = "Miot"
        /\ current_status[p] = Some("Unknown")
        /\ trace[p] = <<<<"get", "on", "">>, <<"set", "on", "True">>>>

\* C10: power_long on a Miot-driven power key with the smart-plug handle
\* present sends (off_prop, off_value), whatever the status and the status
\* driver, and queries no status before it.
C10_PowerLongAlwaysSendsOff ==
    \A p \in Callers :
        (/\ pc[p] = "done" /\ op[p] = "power_long"
         /\ inner.config.power.driver = "Miot" /\ IsSome(inner.miot_backend)) =>
            trace[p] = <<<<"set", inner.config.power.off_prop,
                           inner.config.power.off_value>>>>

\* a power_long on a controller whose status driver is Miot too
C10_Witness ==
    \E p \in Callers :
        /\ pc[p] = "done" /\ op[p] = "power_long"
        /\ inner.config.power.driver = "Miot" /\ IsSome(inner.miot_backend)
        /\ inner.config.status.driver = "Miot"
        /\ Unwrap(result[p]).ok
        /\ trace[p] = <<<<"set", "on", "False">>>>

\* the events of trace t of the given kinds
EventsOf(t, kinds) == SelectSeq(t, LAMBDA e : e[1] \in kinds)

\* the events that spawn a subprocess: an invocation of the tool
Spawns(t) == EventsOf(t, {"get", "set"})

\* C11: every action is dispatched by the driver of its own key.  A reset on
\* a Miot reset key never pulses and, the handle present, sets (reset.prop,
\* reset.value); a reset on a local key never spawns and, the executor
\* present, pulses the reset executor for the reset duration.  power_short
\* and power_long on a local power key never spawn, read no status and, the
\* executor present, pulse the power executor for the short and the long
\* duration.  No action pulses the executor of the other key.
C11_ActionsDispatchOnOwnKeyDriver ==
    \A p \in Callers :
        pc[p] = "done" =>
            /\ (op[p] = "reset" /\ inner.config.reset.driver = "Miot") =>
                    /\ EventsOf(trace[p], {"pulse", "get", "read"}) = <<>>
                    /\ IsSome(inner.miot_backend) =>
                            trace[p] = <<<<"set", inner.config.reset.prop,
                                           inner.config.reset.value>>>>
            /\ (op[p] = "reset" /\ inner.config.reset.driver # "Miot") =>
                    /\ EventsOf(trace[p], {"get", "set", "read"}) = <<>>
                    /\ IsSome(inner.reset_executor) =>
                            trace[p] = <<<<"pulse", "reset", "RESET_PRESS">>>>
            /\ (op[p] \in {"power_short", "power_long"}
                    /\ inner.config.power.driver # "Miot") =>
                    /\ EventsOf(trace[p], {"get", "set", "read"}) = <<>>
                    /\ IsSome(inner.power_executor) =>
                            trace[p] = <<<<"pulse", "power",
                                           IF op[p] = "power_short"
                                           THEN "SHORT_PRESS" ELSE "LONG_PRESS">>>>
            /\ op[p] = "reset" =>
                    \A i \in DOMAIN trace[p] :
                        trace[p][i][1] = "pulse" => trace[p][i][2] = "reset"
            /\ op[p] \in {"power_short", "power_long"} =>
                    \A i \in DOMAIN trace[p] :
                        trace[p][i][1] = "pulse" => trace[p][i][2] = "power"

\* a reset on a Miot reset key beside a local power key whose executor is
\* present: the reset set its pair and pulsed nothing
C11_Witness ==
    \E p \in Callers :
        /\ pc[p] = "done" /\ op[p] = "reset"
        /\ inner.config.reset.driver = "Miot" /\ IsSome(inner.miot_backend)
        /\ inner.config.power.driver = "Gpio" /\ IsSome(inner.power_executor)
        /\ trace[p] = <<<<"set", "name", "1">>>>

\* the key an action presses and the local executor slot of that key
ActionKey(in, o) == IF o = "reset" THEN in.config.reset ELSE in.config.power

ActionExecutor(in, o) ==
    IF o = "reset" THEN in.reset_executor ELSE in.power_executor

\* the backend the action's key selects is absent
SelectedBackendAbsent(in, o) ==
    IF ActionKey(in, o).driver = "Miot"
    THEN ~IsSome(in.miot_backend)
    ELSE ~IsSome(ActionExecutor(in, o))

NotConfiguredErrors ==
    {"MiIoT backend not initialized", "Power button not configured",
     "Reset button not configured"}

\* C12: a power_short, power_long or reset whose selected backend is absent,
\* or whose key is unconfigured (driver None, or the device / prop its driver
\* needs is empty), returns a not-configured or not-initialized error and has
\* pulsed no executor and spawned no subprocess.
C12_UnavailableActionFailsWithoutEffect ==
    \A p \in Callers :
        (/\ pc[p] = "done" /\ op[p] \in {"power_short", "power_long", "reset"}
         /\ \/ SelectedBackendAbsent(inner, op[p])
            \/ ~KeyIsConfigured(ActionKey(inner, op[p]))) =>
            /\ ~Unwrap(result[p]).ok
            /\ Unwrap(result[p]).err \in NotConfiguredErrors
            /\ EventsOf(trace[p], {"pulse", "get", "set"}) = <<>>

\* a get that gives no value: the tool failed, or its output has no value
GetGivesNoValue(o) ==
    \/ o.kind # "exited"
    \/ o.code # 0
    \/ ~IsSome(parse_value_from_output(o.stdout))

\* the status the resolver owes for the answers env of the status backends
OwedStatus(in, env) ==
    CASE in.config.status.driver = "Miot" /\ IsSome(in.miot_backend) ->
            IF GetGivesNoValue(env.get) THEN "Unknown"
            ELSE IF EqIgnoreAsciiCase(Unwrap(parse_value_from_output(env.get.stdout)),
                                      in.config.status.on_value)
                 THEN "On" ELSE "Off"
      [] in.config.status.driver = "Led" /\ IsSome(in.led_sensor) ->
            IF env.read = "Err" THEN "Unknown" ELSE env.read
      [] OTHER -> "Unknown"

\* C13: power_status never returns an error.  What it returns is the status
\* owed for some answer of the selected status backend, and the resolver
\* gives the owed status for every answer: Unknown when the get fails (spawn
\* failure, timeout, wait failure, non-zero exit, output without a value) or
\* the sensor read fails, Unknown when the driver is None or the selected
\* handle is absent, the sensed status otherwise.
C13_PowerStatusAbsorbsEveryFailure ==
    \A p \in Callers :
        (pc[p] = "done" /\ op[p] = "power_status") =>
            LET res == Unwrap(result[p]) IN
            /\ res.ok
            /\ Unwrap(res.val) \in PowerStatus
            /\ \A env \in StatusEnvsFor(inner) :
                    get_power_status_inner(inner, env).status = OwedStatus(inner, env)
            /\ \E env \in StatusEnvsFor(inner) :
                    /\ Unwrap(res.val) = OwedStatus(inner, env)
                    /\ trace[p] = get_power_status_inner(inner, env).events
            /\ trace[p] = <<>> => Unwrap(res.val) = "Unknown"

\* a power_status over the smart plug whose get was spawned and that returned
\* Unknown as a success
C13_Witness ==
    \E p \in Callers :
        /\ pc[p] = "done" /\ op[p] = "power_status"
        /\ inner.config.status.driver = "Miot" /\ IsSome(inner.miot_backend)
        /\ trace[p] = <<<<"get", inner.config.status.prop, "">>>>
        /\ result[p] = Some(Ok("Unknown"))

\* the positions of a line at which the marker starts
MarkerAt(line) ==
    {i \in 1..(Len(line) - 1) : line[i] = "zhi" /\ line[i + 1] = "wei"}

\* line holds the marker, and v is the non-empty trimmed text after it (after
\* its last occurrence in the line)
YieldsValue(rawline, v) ==
    LET line == Trim(rawline) IN
    /\ v # <<>>
    /\ \E i \in MarkerAt(line) :
        /\ \A j \in MarkerAt(line) : j <= i
        /\ v = Trim(SubSeq(line, i + 2, Len(line)))

HasValue(rawline) ==
    LET line == Trim(rawline) IN
    \E i \in MarkerAt(line) :
        /\ \A j \in MarkerAt(line) : j <= i
        /\ Trim(SubSeq(line, i + 2, Len(line))) # <<>>

\* equal after every character is folded to lower case
SameIgnoringCase(a, b) ==
    [i \in 1..Len(a) |-> ToAsciiLower(a[i])] = [i \in 1..Len(b) |-> ToAsciiLower(b[i])]

\* C14: the parsed value is the trimmed text after the marker on the last
\* line that holds the marker with non-empty text after it; lines without
\* the marker and marker lines with nothing after it are skipped; no value
\* is parsed iff no line yields one (the empty output included).
\* parse_power_status is On iff a value is parsed and equals on_value
\* ignoring ASCII case, Off iff a value is parsed and differs, Unknown iff no
\* value is parsed.
C14_ParsedValueIsLastMarkedNonEmptyValue ==
    LET ls == Lines(parse_output)
        claimed == parse_value_from_output(parse_output)
    IN /\ IsSome(parsed_value) =>
            LET got == Unwrap(parsed_value) IN
            /\ IsSome(got) <=> \E k \in 1..Len(ls) : HasValue(ls[k])
            /\ IsSome(got) =>
                    /\ \E k \in 1..Len(ls) :
                            /\ YieldsValue(ls[k], Unwrap(got))
                            /\ \A j \in (k + 1)..Len(ls) : ~HasValue(ls[j])
                    /\ Unwrap(got)[1] \notin Whitespace
                    /\ Unwrap(got)[Len(Unwrap(got))] \notin Whitespace
            /\ parse_output = <<>> => got = NoneOpt
       /\ IsSome(parsed_status) =>
            LET st == Unwrap(parsed_status) IN
            /\ st \in PowerStatus
            /\ st = "On" <=>
                    /\ IsSome(claimed)
                    /\ SameIgnoringCase(Unwrap(claimed), parse_on_value)
            /\ st = "Off" <=>
                    /\ IsSome(claimed)
                    /\ ~SameIgnoringCase(Unwrap(claimed), parse_on_value)
            /\ st = "Unknown" <=> ~IsSome(claimed)
            /\ IsSome(parsed_value) => Unwrap(parsed_value) = claimed

\* a value line followed by a second value line: the value of the second is
\* parsed, and it is On for an on_value of the other case
C14_Witness ==
    /\ parse_output = <<"zhi", "wei", "wei", "\n", "zhi", "wei", "t">>
    /\ parsed_value = Some(Some(<<"t">>))
    /\ parse_on_value = <<"T">>
    /\ parsed_status = Some("On")

\* the call o has returned after its child exited with code 0 and an output
\* that holds no value line
ReturnedWithoutValueLine(o) ==
    /\ call.pc = "returned" /\ call.op = o
    /\ IsSome(call.outcome)
    /\ Unwrap(call.outcome).kind = "exited" /\ Unwrap(call.outcome).code = 0
    /\ ~IsSome(parse_value_from_output(Unwrap(call.outcome).stdout))

\* C15: a get_prop whose child exits with code 0 and whose output holds no
\* line with the marker returns an error; a get_power_status with the same
\* output returns Unknown as a success.
C15_RawGetFailsOnUnmarkedOutput ==
    /\ ReturnedWithoutValueLine("get_prop") => ~Unwrap(call.result).ok
    /\ ReturnedWithoutValueLine("get_power_status") =>
            call.result = Some(Ok("Unknown"))

\* the step is the call o on the idle backend
PlugStep(o) == call.pc = "idle" /\ call'.op = o

\* C16: the smart-plug backend starts Unready.  init moves it to Ready when
\* its settings are configured and leaves it Unready when they are not; it
\* returns success and spawns no subprocess in both cases.  shutdown moves
\* it to Unready from either state and returns success.  No other step
\* (set, get, get_power_status, the child, the wait) changes the readiness.
C16_ReadinessIsATwoStateMachine ==
    /\ ~plug.initialized
    /\ [][/\ PlugStep("init") =>
                /\ plug'.initialized =
                        (IF MiotIsConfigured(plug.config) THEN TRUE ELSE FALSE)
                /\ ~MiotIsConfigured(plug.config) => ~plug.initialized
                /\ call'.pc = "returned" /\ call'.result = Some(OkUnit)
                /\ call'.spawned = 0 /\ child' = NoChild
          /\ PlugStep("shutdown") =>
                /\ ~plug'.initialized
                /\ call'.pc = "returned" /\ call'.result = Some(OkUnit)
          /\ ~(PlugStep("init") \/ PlugStep("shutdown")) =>
                plug'.initialized = plug.initialized
          /\ plug'.config = plug.config]_vars

\* an init has returned on a backend that is Ready, with no child spawned
C16_Witness ==
    /\ call.pc = "returned" /\ call.op = "init"
    /\ plug.initialized
    /\ call.result = Some(OkUnit)
    /\ call.spawned = 0 /\ child = NoChild

\* C17: a get_power_status on a backend that is not Ready returns Unknown as
\* a success and spawns no subprocess.
C17_StatusOfUnreadyBackendIsUnknownWithoutSpawn ==
    (/\ call.op = "get_power_status" /\ call.pc # "idle"
     /\ ~plug.initialized) =>
        /\ call.pc = "returned"
        /\ call.result = Some(Ok("Unknown"))
        /\ call.spawned = 0
        /\ child = NoChild
        /\ \A o \in GetOutcomes :
                get_power_status(plug, call.prop, PlugOnValue, o).events = <<>>

\* a get_power_status has returned on a backend whose settings are
\* configured but that is not Ready
C17_Witness ==
    /\ call.op = "get_power_status" /\ call.pc = "returned"
    /\ MiotIsConfigured(plug.config) /\ ~plug.initialized
    /\ call.result = Some(Ok("Unknown"))
    /\ child = NoChild

\* the call has returned with the outcome kind
ReturnedWith(kind) ==
    /\ call.pc = "returned" /\ IsSome(call.outcome)
    /\ Unwrap(call.outcome).kind = kind

\* C18: no child outlives the call that spawned it.  Once the call has
\* returned or its caller was cancelled the child does not run; a child
\* that runs when the timeout fires or when the caller is cancelled is
\* killed; a call that timed out returns an error that carries no output,
\* whatever the child had written, and a cancelled call returns nothing.
C18_NoChildOutlivesItsCall ==
    /\ [](/\ call.pc \in {"idle", "returned", "cancelled"} =>
                child.state # "running"
          /\ ReturnedWith("timed_out") =>
                /\ ~Unwrap(call.result).ok
                /\ Unwrap(call.result).val = NoneOpt
          /\ call.pc = "cancelled" => call.result = NoneOpt)
    /\ [][(/\ call.pc = "waiting" /\ call'.pc \in {"returned", "cancelled"}
           /\ child.state = "running") => child'.state = "killed"]_vars

\* a get timed out after its child had written a value line: the child is
\* killed and the call returned an error
C18_Witness ==
    /\ ReturnedWith("timed_out")
    /\ call.op = "get_power_status"
    /\ child.state = "killed" /\ child.stdout = OutTrue
    /\ ~Unwrap(call.result).ok

\* the child of the call was spawned, the wait for it completed before the
\* timeout, and it exited with code 0
SpawnedExitedInTimeWithZero ==
    /\ call.spawned = 1
    /\ ReturnedWith("exited")
    /\ child.state = "exited" /\ child.code = 0

\* C19: a set returns success iff its child was spawned, exited before the
\* timeout and exited with code 0; a get returns the captured standard
\* output under exactly these conditions; a spawn failure, a timeout, a wait
\* failure and a non-zero exit each return an error.
C19_SuccessIffSpawnedExitedInTimeWithZero ==
    (call.pc = "returned" /\ call.op \in {"set_prop", "get_prop"}) =>
        LET res == Unwrap(call.result) IN
        /\ res.ok <=> SpawnedExitedInTimeWithZero
        /\ (call.op = "set_prop" /\ res.ok) => res = OkUnit
        /\ (call.op = "get_prop" /\ res.ok) => res = Ok(child.stdout)
        /\ \A kind \in {"spawn_failed", "timed_out", "wait_failed"} :
                ReturnedWith(kind) => ~res.ok /\ res.val = NoneOpt
        /\ (ReturnedWith("exited") /\ child.code # 0) =>
                ~res.ok /\ res.val = NoneOpt
        /\ ReturnedWith("spawn_failed") <=> call.spawned = 0

\* a set whose child ran to the end and exited with a non-zero code: the
\* call returned the error
C19_Witness ==
    /\ call.op = "set_prop" /\ ReturnedWith("exited")
    /\ child.state = "exited" /\ child.code = 1
    /\ call.result = Some(Err("mijiaAPI set failed"))

\* the action o was run on a Miot-driven key with the smart-plug handle present
MiotActionDone(p, o) ==
    /\ pc[p] = "done" /\ op[p] = o
    /\ ActionKey(inner, o).driver = "Miot" /\ IsSome(inner.miot_backend)

\* C20: nothing is retried.  Every operation invokes the tool at most once
\* per get and once per set, whatever the outcome; power_long and reset on a
\* Miot key spawn exactly one set and nothing else; power_short on a Miot
\* key spawns at most one get, only when the status driver is Miot, and then
\* exactly one set, after the get has finished; a failed set is returned to
\* the caller with that one set spawned.
C20_NoRetryAtAnyLayer ==
    \A p \in Callers :
        LET gets == EventsOf(trace[p], {"get"})
            sets == EventsOf(trace[p], {"set"})
        IN /\ Len(gets) <= 1 /\ Len(sets) <= 1
           /\ (MiotActionDone(p, "power_long") \/ MiotActionDone(p, "reset")) =>
                    Len(trace[p]) = 1 /\ Len(sets) = 1
           /\ MiotActionDone(p, "power_short") =>
                    /\ Len(sets) = 1
                    /\ trace[p][Len(trace[p])][1] = "set"
                    /\ Len(gets) = 1 => inner.config.status.driver = "Miot"
                    /\ Len(Spawns(trace[p])) = Len(gets) + 1
           /\ pc[p] = "power_short_set" =>
                    /\ sets = <<>>
                    /\ IsSome(current_status[p])
                    /\ result[p] = NoneOpt

\* a power_short over the smart plug whose set failed: one get, then the one
\* set, and the error returned
C20_Witness ==
    \E p \in Callers :
        /\ MiotActionDone(p, "power_short")
        /\ inner.config.status.driver = "Miot"
        /\ trace[p] = <<<<"get", "on", "">>, <<"set", "on", "True">>>>
        /\ result[p] = Some(Err("mijiaAPI set failed"))

\* C21: is_configured of a key holds iff its driver is not None, and a Gpio
\* or UsbRelay driver has a non-empty device, and a Miot driver has a
\* non-empty prop; no other field matters.  The same for a status
\* configuration, with Led and gpio_chip for Gpio / UsbRelay and device.
C21_IsConfiguredIffDriverAndItsField ==
    /\ IsSome(key_configured) =>
        /\ Unwrap(key_configured) <=>
                /\ key_arg.driver # "None"
                /\ key_arg.driver \in {"Gpio", "UsbRelay"} => key_arg.device # ""
                /\ key_arg.driver = "Miot" => key_arg.prop # ""
        /\ \A k \in KeyConfigArgs :
                (/\ k.driver = key_arg.driver
                 /\ k.driver \in {"Gpio", "UsbRelay"} => k.device = key_arg.device
                 /\ k.driver = "Miot" => k.prop = key_arg.prop) =>
                    KeyIsConfigured(k) = Unwrap(key_configured)
    /\ IsSome(status_configured) =>
        /\ Unwrap(status_configured) <=>
                /\ status_arg.driver # "None"
                /\ status_arg.driver = "Led" => status_arg.gpio_chip # ""
                /\ status_arg.driver = "Miot" => status_arg.prop # ""
        /\ \A c \in StatusConfigArgs :
                (/\ c.driver = status_arg.driver
                 /\ c.driver = "Led" => c.gpio_chip = status_arg.gpio_chip
                 /\ c.driver = "Miot" => c.prop = status_arg.prop) =>
                    StatusIsConfigured(c) = Unwrap(status_configured)

\* a Miot key with a device but no prop is not configured, a Led status
\* with a chip is, though its prop is empty
C21_Witness ==
    /\ key_arg.driver = "Miot" /\ key_arg.device # "" /\ key_arg.prop = ""
    /\ key_configured = Some(FALSE)
    /\ status_arg.driver = "Led" /\ status_arg.gpio_chip # "" /\ status_arg.prop = ""
    /\ status_configured = Some(TRUE)

LockingOps ==
    {"init", "reload", "shutdown", "state", "power_status", "power_short",
     "power_long", "reset"}

\* C22: every public operation has acquired the RwLock exactly once when it
\* returns, and never more than once while it runs.
C22_OneAcquisitionPerCall ==
    \A p \in Callers :
        /\ op[p] \in LockingOps => acquired[p] <= 1
        /\ (pc[p] = "done" /\ op[p] \in LockingOps) => acquired[p] = 1

\* C23: under the fairness of SpecLive every call of init, reload, shutdown,
\* state, power_status, power_short, power_long and reset returns, whatever
\* the other callers do; no caller awaits the lock while it holds it.
C23_EveryCallReturns ==
    /\ [](\A p \in Callers :
            p \in writer \cup readers =>
                pc[p] \notin WaitingForWrite \cup {"read_wait"})
    /\ \A p \in LiveCallers : (pc[p] # "idle") ~> (pc[p] = "done")

\* a writer waits at the head of the queue while a reader holds the lock
C23_Witness ==
    \E p, q \in Callers :
        /\ p \in readers
        /\ pc[q] \in WaitingForWrite
        /\ queue # <<>> /\ Head(queue) = q

\* C24: a smart-plug handle that is present is initialized.  Hence for status
\* driver Miot state().status_supported, which tests the presence of the
\* handle only, is "present and initialized", and a status resolved through
\* the controller over a present handle always invokes the tool: the
\* not-ready short-circuit of get_power_status is never taken.
C24_PresentPlugHandleIsReady ==
    /\ IsSome(inner.miot_backend) =>
            /\ Unwrap(inner.miot_backend).initialized
            /\ MiotIsConfigured(Unwrap(inner.miot_backend).config)
    /\ \A p \in Callers :
        (pc[p] = "done" /\ inner.config.status.driver = "Miot") =>
            /\ op[p] = "state" =>
                    Unwrap(Unwrap(result[p]).val).status_supported =
                        (/\ IsSome(inner.miot_backend)
                         /\ Unwrap(inner.miot_backend).initialized)
            /\ (op[p] \in {"state", "power_status"} /\ IsSome(inner.miot_backend)) =>
                    trace[p] = <<GetEvent(inner.config.status.prop)>>

\* a state() over a present smart-plug handle that reported the status as
\* supported and queried the plug
C24_Witness ==
    \E p \in Callers :
        /\ pc[p] = "done" /\ op[p] = "state"
        /\ inner.config.status.driver = "Miot" /\ IsSome(inner.miot_backend)
        /\ Unwrap(Unwrap(result[p]).val).status_supported
        /\ trace[p] = <<GetEvent(inner.config.status.prop)>>

\* C25: the snapshot agrees with the dispatch of the actions.  Where state()
\* gives power_configured, a power_short or power_long does not fail with a
\* not-configured or not-initialized error; where it gives reset_configured, a
\* reset does not.
C25_SnapshotAgreesWithDispatch ==
    \A p \in Callers :
        (pc[p] = "done" /\ ~Unwrap(result[p]).ok) =>
            /\ (/\ op[p] \in {"power_short", "power_long"}
                /\ StateSnapshot(inner, "Unknown").power_configured) =>
                    Unwrap(result[p]).err \notin NotConfiguredErrors
            /\ (op[p] = "reset" /\ StateSnapshot(inner, "Unknown").reset_configured) =>
                    Unwrap(result[p]).err \notin NotConfiguredErrors

\* the backend the action o is dispatched to is present and initialized
Dispatchable(in, o) ==
    IF ActionKey(in, o).driver = "Miot"
    THEN IsSome(in.miot_backend) /\ Unwrap(in.miot_backend).initialized
    ELSE /\ IsSome(ActionExecutor(in, o))
         /\ Unwrap(ActionExecutor(in, o)).initialized

\* C26: the readiness predicates report the availability of each feature.
\* is_power_ready() is true exactly when power_short / power_long would be
\* dispatched to a present, initialized backend, is_reset_ready() exactly
\* when reset would be, for every driver, Miot included.
C26_ReadinessReportsAvailability ==
    \A p \in Callers :
        pc[p] = "done" =>
            /\ op[p] = "is_power_ready" =>
                    Unwrap(Unwrap(result[p]).val) = Dispatchable(inner, "power_short")
            /\ op[p] = "is_reset_ready" =>
                    Unwrap(Unwrap(result[p]).val) = Dispatchable(inner, "reset")

\* C27: a smart-plug backend that is not Ready (never initialised,
\* initialised with unconfigured settings, or shut down) spawns no subprocess:
\* a set_prop, get_prop or get_power_status on it returns without invoking
\* the tool.
C27_UnreadyBackendNeverSpawns ==
    (/\ ~plug.initialized
     /\ call.op \in {"set_prop", "get_prop", "get_power_status"}) =>
        /\ call.spawned = 0
        /\ child = NoChild

----------------------------------------------------------------------------
\* Concurrent actions on a smart plug: callers of a controller whose power and
\* reset keys are Miot-driven press the buttons at the same time.  The tool
\* answers every get with the power the plug gives at that moment.

\* power_short up to the set, the get answered with the plug's actual power
power_short_sensed(p) ==
    /\ power_short(p)
    /\ pc'[p] = "power_short_set" => current_status'[p] = Some(plug_power)

InitToggle ==
    /\ inner = NewInner(PlugConfig)
    /\ InitCallers
    /\ InitPlugIdle
    /\ InitParserIdle
    /\ InitTypesIdle

\* the operations the callers of the plug run
ToggleOps == {"init", "power_short", "power_long", "reset"}

NextToggle ==
    \E p \in Callers :
        \/ Call(p, ToggleOps)
        \/ lock_write(p)
        \/ lock_read(p)
        \/ init(p, HwAllOk)
        \/ power_short_sensed(p)
        \/ power_short_set(p)
        \/ power_long(p)
        \/ reset(p)
        \/ Return(p)

SpecToggle == InitToggle /\ [][NextToggle]_vars

\* C28: a power_short on a Miot-driven power key acts on what it sensed.
\* When its set is about to be issued, the status it sensed is still the
\* power the plug gives, so the command is the toggle of that power, whatever
\* power_short, power_long and reset calls run at the same time; and no two
\* power_short calls are about to send the same command from the same sensed
\* status.
C28_PowerShortTogglesCurrentPower ==
    /\ \A p \in Callers :
            pc[p] = "power_short_set" =>
                PowerShortCommand(inner.config.power, Unwrap(current_status[p]))
                    = PowerShortCommand(inner.config.power, plug_power)
    /\ \A p, q \in Callers :
            (/\ p # q
             /\ pc[p] = "power_short_set" /\ pc[q] = "power_short_set") =>
                current_status[p] # current_status[q]

\* C29: the actions and the queries leave the controller as it is.  No step
\* of state, power_status, is_available, is_power_ready, is_reset_ready,
\* power_short, power_long or reset, whether the call succeeds or fails,
\* changes the stored config or any of the four handles; and nothing a call
\* computed is kept for a later call: a call starts with no sensed status and
\* no effect of an earlier one.
C29_ActionsAndQueriesLeaveTheBundle ==
    /\ [](\A p \in Callers :
            pc[p] \in {"idle", "read_wait", "read_locked"} =>
                /\ current_status[p] = NoneOpt
                /\ trace[p] = <<>>
                /\ result[p] = NoneOpt)
    /\ [][\A p \in Callers :
            (pc'[p] # pc[p] /\ (op[p] \in ReadOps \/ op'[p] \in ReadOps)) =>
                inner' = inner]_vars

\* a reset whose pulse failed has returned the error, and the executor is
\* still in place
C29_Witness ==
    \E p \in Callers :
        /\ pc[p] = "done" /\ op[p] = "reset"
        /\ result[p] = Some(Err("pulse failed"))
        /\ trace[p] = <<<<"pulse", "reset", "RESET_PRESS">>>>
        /\ IsSome(inner.reset_executor)

----------------------------------------------------------------------------
\* A controller that is switched off by a reload while other callers use it.

\* LocalConfig with enabled = false
DisabledConfig == [LocalConfig EXCEPT !.enabled = FALSE]

DisableConfigs == {LocalConfig, DisabledConfig}

InitDisable ==
    /\ inner \in {NewInner(c) : c \in DisableConfigs}
    /\ InitCallers
    /\ InitPlugIdle
    /\ InitParserIdle
    /\ InitTypesIdle

\* the operations the callers run
DisableOps == WriteOps \cup {"power_short", "state"}

NextDisable ==
    \E p \in Callers :
        \/ Call(p, DisableOps)
        \/ lock_write(p)
        \/ lock_read(p)
        \/ init(p, HwAllOk)
        \/ shutdown_internal(p, HwAllOk)
        \/ reload_config(p, DisableConfigs)
        \/ state(p)
        \/ power_short(p)
        \/ Return(p)

SpecDisable == InitDisable /\ [][NextDisable]_vars

\* C30: a disabled controller actuates nothing.  Whenever the stored config
\* has enabled = false, the four handles are absent, so that power_short,
\* power_long and reset find no backend to pulse or to spawn for, and state()
\* gives available = false.
C30_DisabledControllerHasNoHandles ==
    ~inner.config.enabled =>
        /\ \A h \in HandleFields : inner[h] = NoneOpt
        /\ \A o \in {"power_short", "power_long", "reset"} :
                SelectedBackendAbsent(inner, o)
        /\ ~StateSnapshot(inner, "Unknown").available

====
